---- MODULE Spec2Model ----
(***************************************************************************)
(* The session engine of crewtalk (services/api/app/engine): one           *)
(* SessionEngine, the session row it mirrors to the database, the control  *)
(* calls start / pause / resume / stop / advance_phase and the scheduler   *)
(* task _run, as coroutines of one asyncio event loop.                     *)
(*                                                                         *)
(* A coroutine runs without interruption from one suspension to the next.  *)
(* What is runnable without waiting for I/O (a task just created, a waiter *)
(* of the pause gate once the gate is set, a task a cancellation was sent  *)
(* to) is run by the loop before any I/O completion is handled.  An action *)
(* is therefore one I/O completion or one request, followed by everything  *)
(* the scheduler task does until it suspends again (Settle).               *)
(*                                                                         *)
(* Spec is the engine.  _collect_memories (SpecMemory), get_phases         *)
(* (SpecPhases) and the SessionBroadcaster of engine/ws.py with its        *)
(* websocket consumers (SpecBroadcaster) are specifications of their own,  *)
(* each over its own variables, and so are the scoring of a final text     *)
(* (SpecScores) and _build_prompt (SpecPrompt).  SpecTurns is the engine   *)
(* with a roster of two participants, a moderator and a note-taker;        *)
(* SpecRestart is the engine restarted while operations of a cancelled     *)
(* task are still in their threads; SpecAppend is _append_memory and       *)
(* _collect_memories over a run; SpecLive is one run of the engine under   *)
(* a fair event loop.                                                      *)
(***************************************************************************)
EXTENDS Integers, Sequences, FiniteSets, TLC

VARIABLES
    status,             \* SessionEngine.status
    phase,              \* SessionEngine.phase
    turn_index,         \* SessionEngine.turn_index
    phase_deadline,     \* SessionEngine.phase_deadline ({} is None)
    expired,            \* utcnow() > self.phase_deadline
    agents,             \* SessionEngine._agents: the roles, in stored order
    stop_requested,     \* SessionEngine._stop_requested
    advance_requested,  \* SessionEngine._advance_requested
    pause_event,        \* SessionEngine._pause_event: TRUE is set (gate open)
    call,               \* the control call that holds SessionEngine._lock
    tasks,              \* the scheduler tasks that are referenced or running
    cur_task,           \* SessionEngine._task: an index of tasks, 0 is None
    db,                 \* the row of table sessions
    db_agents,          \* the rows of table agents, ordered by created_at
    out,                \* the events the last step broadcast, in order
    ins,                \* the rows the last step inserted (messages, memory)
    result,             \* how the control call of the last step returned
    late,               \* operations cancelled tasks left in worker threads
    mem_store,          \* the Redis lists session:<sid>:scratch:<agent name>
    mem_roster,         \* the agent names of SessionEngine._agents, in order
    memories,           \* what _collect_memories returned
    mem_pc,             \* _collect_memories: "idle", "call" or "return"
    total_time,         \* the argument of get_phases
    phases,             \* what get_phases returned (<<>> before the call)
    listeners,          \* SessionBroadcaster._listeners: session -> queues
    queues,             \* the items of each asyncio.Queue, oldest first
    conn,               \* each websocket handler: its session, its position
    emitted,            \* how many events emit and close_session placed
    since,              \* per queue: emitted when it was registered
    got,                \* per queue: seq of the event it dequeued last
    bc_call,            \* the call of the broadcaster the last step made
    sc_text,            \* the final text of a turn (l.382-384)
    sentiment,          \* what _sentiment_score returned ({} before)
    confidence,         \* what _confidence_score returned ({} before)
    pr_args,            \* the arguments of a call of _build_prompt
    prompt              \* what _build_prompt returned ("" before)

vars == <<status, phase, turn_index, phase_deadline, expired, agents,
          stop_requested, advance_requested, pause_event, call, tasks,
          cur_task, db, db_agents, out, ins, result, late,
          mem_store, mem_roster, memories, mem_pc, total_time, phases,
          listeners, queues, conn, emitted, since, got, bc_call,
          sc_text, sentiment, confidence, pr_args, prompt>>

\* the fields of the engine, its tasks and its database rows
engine_vars ==
    <<status, phase, turn_index, phase_deadline, expired, agents,
      stop_requested, advance_requested, pause_event, call, tasks,
      cur_task, db, db_agents, out, ins, result, late>>

\* the variables of a call of _collect_memories
memory_vars == <<mem_store, mem_roster, memories, mem_pc>>

\* the variables of a call of get_phases
phase_vars == <<total_time, phases>>

\* the broadcaster and the websocket handlers that consume its queues
broadcast_vars == <<listeners, queues, conn, emitted, since, got, bc_call>>

\* the variables of the scoring of a final text
score_vars == <<sc_text, sentiment, confidence>>

\* the variables of a call of _build_prompt
prompt_vars == <<pr_args, prompt>>

\* the variables a step of the session engine leaves alone
aside == <<memory_vars, phase_vars, broadcast_vars, score_vars, prompt_vars>>

(***************************************************************************)
(* Bounds of the model.                                                    *)
(***************************************************************************)
\* SessionEngine(max_turns_per_phase=...): cycles per phase
MaxTurnsPerPhase == 2
\* a restart is explored while the persisted turn_index is at most this
\* and no operation of a cancelled task is left in a worker thread
MaxRestartTurn == 1
\* sessions.time_limit_sec of the modelled session
TimeLimitSec == 122
\* scheduler tasks that can exist at once
MaxTasks == 2
\* the turn_index values of the entries in short-term memory: 1..MaxTurnIdx
MaxTurnIdx == 5
\* get_phases is called with 0..MaxTotalSec
MaxTotalSec == 130
\* asyncio.Queue(maxsize=200), scaled down
MaxQueueSize == 2
\* events placed by emit and close_session over a run
MaxEmits == 4
\* entries _append_memory stores over a run
MaxAppends == 10
\* fragments in the text a model streams in one turn
MaxWords == 3
\* operations of cancelled tasks in their threads when a restart is made
MaxLate == 1

(***************************************************************************)
(* Program constants.                                                      *)
(***************************************************************************)
SHORT_TERM_LIMIT == 8
NOTETAKER_INTERVAL == 2
MinTotalSec == 120

PHASE_ORDER == <<"discover", "define", "develop", "deliver">>

\* the rosters a session is started with (table agents, role column)
Rosters ==
    { <<>>,
      <<"moderator">>,
      <<"participant", "notetaker">>,
      <<"participant", "moderator", "notetaker">> }

(***************************************************************************)
(* strategy/double_diamond.py                                              *)
(***************************************************************************)
Max(a, b) == IF a >= b THEN a ELSE b

\* a split that would not raise a short total to the minimum
get_phases_unclamped(total_time_sec) ==
    LET total     == total_time_sec
        base      == total \div Len(PHASE_ORDER)
        remainder == total % Len(PHASE_ORDER)
    IN  [i \in 1..Len(PHASE_ORDER) |->
            [name         |-> PHASE_ORDER[i],
             duration_sec |-> base + (IF i - 1 < remainder THEN 1 ELSE 0)]]

get_phases(total_time_sec) ==
    LET total     == Max(total_time_sec, MinTotalSec)
        base      == total \div Len(PHASE_ORDER)
        remainder == total % Len(PHASE_ORDER)
    IN  [i \in 1..Len(PHASE_ORDER) |->
            [name         |-> PHASE_ORDER[i],
             duration_sec |-> base + (IF i - 1 < remainder THEN 1 ELSE 0)]]

\* position of a phase name in PHASE_ORDER (0 when it is none of them)
PhaseIdx(name) ==
    LET S == {i \in 1..Len(PHASE_ORDER) : PHASE_ORDER[i] = name}
    IN  IF S = {} THEN 0 ELSE CHOOSE i \in S : TRUE

\* _run: current_phase_index = next((idx ... if p.name == self.phase), 0)
current_phase_index(name) ==
    IF PhaseIdx(name) = 0 THEN 1 ELSE PhaseIdx(name)

(***************************************************************************)
(* _configure_agents: the roster roles derived from the agent list         *)
(***************************************************************************)
FirstWithRole(a, role) ==
    LET S == {i \in 1..Len(a) : a[i] = role}
    IN  IF S = {} THEN 0 ELSE CHOOSE i \in S : \A j \in S : i <= j

Moderator(a) == FirstWithRole(a, "moderator")

NoteTaker(a) == FirstWithRole(a, "notetaker")

Participants(a) ==
    LET IsP(i) == a[i] = "participant"
    IN  SelectSeq([i \in 1..Len(a) |-> i], IsP)

\* a roster check that would ask for a moderator only
RosterOkModeratorOnly(a) == Moderator(a) # 0

\* start: "if not self._moderator or not self._participants: raise"
RosterOk(a) == Moderator(a) # 0 /\ Participants(a) # <<>>

(***************************************************************************)
(* repo.update_session: an argument left None ({}) is not written.         *)
(***************************************************************************)
None == {}

Some(x) == {x}

Only(S) == CHOOSE x \in S : TRUE

update_session(row, ph, st, ti, dl, ea) ==
    [phase      |-> IF ph # None THEN Only(ph) ELSE row.phase,
     status     |-> IF st # None THEN Only(st) ELSE row.status,
     turn_index |-> IF ti # None THEN Only(ti) ELSE row.turn_index,
     deadline   |-> IF dl # None THEN dl ELSE row.deadline,
     ended_at   |-> IF ea # None THEN TRUE ELSE row.ended_at]

(***************************************************************************)
(* Records                                                                 *)
(***************************************************************************)
\* st, ph, ti: the arguments a call passed to update_session
NoCall == [op |-> "none", st |-> "", ph |-> "", ti |-> 0]

\* an event other than session.status: its type and, for an error, scope
Event(type, scope) ==
    [event |-> type, scope |-> scope, status |-> "", phase |-> "",
     turn_index |-> turn_index, deadline |-> None]

\* the session.status event with _status_payload()
StatusEvent(st, ph, ti, dl) ==
    [event |-> "session.status", scope |-> "", status |-> st, phase |-> ph,
     turn_index |-> ti, deadline |-> dl]

\* turns: how many turns the phase loop the task is in has carried out
\* (the summary turn apart)
NewTask ==
    [pc |-> "run_start", idx |-> 0, cycles |-> 0, slot |-> "none", k |-> 0,
     text |-> "", cancelled |-> FALSE, crashed |-> FALSE, sessErr |-> 0,
     turns |-> 0]

\* a task that has ended keeps how it ended and nothing of its frame
Ended(r, how) ==
    [NewTask EXCEPT !.pc = how, !.cancelled = r.cancelled,
                    !.crashed = r.crashed, !.sessErr = r.sessErr]

EndedPcs == {"finished", "cancelled"}

TaskDone(t) == tasks[t].pc \in EndedPcs

\* the tasks of a list that have not ended
Unfinished(ts) ==
    LET Live(r) == r.pc \notin EndedPcs
    IN  SelectSeq(ts, Live)

\* pcs at which the task waits for an I/O operation to complete
IOPcs == {"pl_update", "turn_read", "turn_persist", "turn_stream",
          "turn_save", "turn_memory", "fin_update"}

\* pcs at which the task waits for the pause gate
GatePcs == {"for_wait", "while_wait", "turn_wait"}

\* pcs from which the task runs on without suspending
ReadyPcs == {"run_start", "for_head", "while_head", "turn_entry", "turn_ret",
             "summary", "for_next", "run_done"}

Phases == get_phases(TimeLimitSec)

(***************************************************************************)
(* The part of the scheduler task that runs without suspending, as a       *)
(* function of the engine fields m (Eng below).                            *)
(***************************************************************************)
\* the agent whose turn task record r is in (0 is None)
AgentOf(m, r) ==
    CASE r.slot \in {"mod", "summary"} -> Moderator(m.agents)
      [] r.slot = "part" -> Participants(m.agents)[r.k]
      [] r.slot = "note" -> NoteTaker(m.agents)
      [] OTHER -> 0

SetTask(m, t, r) == [m EXCEPT !.tasks[t] = r]

\* _run, up to the for loop
RunStart(m, t) ==
    SetTask(m, t, [m.tasks[t] EXCEPT
                      !.pc = "for_head",
                      !.idx = current_phase_index(m.phase)])

\* "for idx in range(current_phase_index, len(phases))", first stop check
ForHead(m, t) ==
    SetTask(m, t, [m.tasks[t] EXCEPT !.pc =
        IF m.tasks[t].idx > Len(PHASE_ORDER) \/ m.stop_requested
        THEN "run_done" ELSE "for_wait"])

\* after "await self._pause_event.wait()": second stop check, then
\* _run_phase_loop up to its await of update_session
ForWait(m, t) ==
    IF m.stop_requested
    THEN SetTask(m, t, [m.tasks[t] EXCEPT !.pc = "run_done"])
    ELSE [SetTask(m, t, [m.tasks[t] EXCEPT !.pc = "pl_update"]) EXCEPT
             !.phase = Phases[m.tasks[t].idx].name,
             !.phase_deadline =
                 Some([phase |-> Phases[m.tasks[t].idx].name,
                       sec   |-> Phases[m.tasks[t].idx].duration_sec]),
             !.expired = FALSE]

\* "while cycles < self.max_turns_per_phase and not self._stop_requested"
WhileHead(m, t) ==
    SetTask(m, t, [m.tasks[t] EXCEPT !.pc =
        IF m.tasks[t].cycles < MaxTurnsPerPhase /\ ~m.stop_requested
        THEN "while_wait" ELSE "summary"])

\* a loop that would never look at the clock
DeadlineIgnored(m) == FALSE

\* "self.phase_deadline and utcnow() > self.phase_deadline"
DeadlinePassed(m) == m.phase_deadline # None /\ m.expired

\* after the gate wait of a cycle: the three breaks, else the moderator
WhileWait(m, t) ==
    IF m.stop_requested
    THEN SetTask(m, t, [m.tasks[t] EXCEPT !.pc = "summary"])
    ELSE IF m.advance_requested
    THEN [SetTask(m, t, [m.tasks[t] EXCEPT !.pc = "summary"]) EXCEPT
             !.advance_requested = FALSE]
    ELSE IF DeadlinePassed(m)
    THEN SetTask(m, t, [m.tasks[t] EXCEPT !.pc = "summary"])
    ELSE SetTask(m, t, [m.tasks[t] EXCEPT !.pc = "turn_entry",
                                          !.slot = "mod", !.k = 0])

\* _turn_for_agent: "if not agent or self._stop_requested: return"
TurnEntry(m, t) ==
    SetTask(m, t, [m.tasks[t] EXCEPT !.pc =
        IF AgentOf(m, m.tasks[t]) = 0 \/ m.stop_requested
        THEN "turn_ret" ELSE "turn_wait"])

\* "if self.status == 'paused': return"
TurnSkipsPaused(m) == m.status = "paused"

\* after the gate wait of a turn: the stop and paused checks, then the
\* await of _collect_memories and of the notepad
TurnWait(m, t) ==
    SetTask(m, t, [m.tasks[t] EXCEPT !.pc =
        IF m.stop_requested \/ TurnSkipsPaused(m)
        THEN "turn_ret" ELSE "turn_read"])

\* a cycle that would end with a note-taker turn every time
AfterParticipantsEveryCycle(m, r) ==
    IF NoteTaker(m.agents) # 0
    THEN [r EXCEPT !.pc = "turn_entry", !.slot = "note", !.k = 0]
    ELSE [r EXCEPT !.pc = "while_head", !.slot = "none", !.k = 0,
                   !.cycles = r.cycles + 1]

\* the end of a cycle: the note-taker turn of every NOTETAKER_INTERVAL-th
\* cycle, else "cycles += 1"
AfterParticipants(m, r) ==
    IF NoteTaker(m.agents) # 0 /\ (r.cycles + 1) % NOTETAKER_INTERVAL = 0
    THEN [r EXCEPT !.pc = "turn_entry", !.slot = "note", !.k = 0]
    ELSE [r EXCEPT !.pc = "while_head", !.slot = "none", !.k = 0,
                   !.cycles = r.cycles + 1]

\* where _run_phase_loop goes on after a turn returned
AfterTurn(m, r) ==
    CASE r.slot = "mod" ->
            IF Len(Participants(m.agents)) >= 1
            THEN [r EXCEPT !.pc = "turn_entry", !.slot = "part", !.k = 1]
            ELSE AfterParticipants(m, r)
      [] r.slot = "part" ->
            IF r.k < Len(Participants(m.agents))
            THEN [r EXCEPT !.pc = "turn_entry", !.k = r.k + 1]
            ELSE AfterParticipants(m, r)
      [] r.slot = "note" ->
            [r EXCEPT !.pc = "while_head", !.slot = "none", !.k = 0,
                      !.cycles = r.cycles + 1]
      [] OTHER ->
            [r EXCEPT !.pc = "for_next", !.slot = "none", !.k = 0,
                      !.cycles = 0]

TurnRet(m, t) == SetTask(m, t, AfterTurn(m, m.tasks[t]))

\* "if self._moderator and not self._stop_requested": the summary turn
Summary(m, t) ==
    SetTask(m, t,
        IF Moderator(m.agents) # 0 /\ ~m.stop_requested
        THEN [m.tasks[t] EXCEPT !.pc = "turn_entry", !.slot = "summary",
                                !.k = 0, !.turns = 0]
        ELSE [m.tasks[t] EXCEPT !.pc = "for_next", !.cycles = 0,
                                !.turns = 0])

\* back in _run: third stop check, next idx
ForNext(m, t) ==
    SetTask(m, t,
        IF m.stop_requested
        THEN [m.tasks[t] EXCEPT !.pc = "run_done"]
        ELSE [m.tasks[t] EXCEPT !.pc = "for_head", !.idx = @ + 1])

\* a scheduler that would go back to idle when the for loop is left
StatusAtExitIdle == "idle"

\* the status the scheduler sets when the for loop is left
StatusAtExit == "done"

\* "self.status = 'done'", then the finally block up to its await
RunDone(m, t) ==
    [SetTask(m, t, [m.tasks[t] EXCEPT !.pc = "fin_update", !.idx = 0])
        EXCEPT !.status = StatusAtExit]

IsReady(m, t) ==
    \/ m.tasks[t].pc \in ReadyPcs
    \/ m.tasks[t].pc \in GatePcs /\ m.pause_event

ReadyTasks(m) == {t \in 1..Len(m.tasks) : IsReady(m, t)}

ReadyStep(m, t) ==
    CASE m.tasks[t].pc = "run_start"  -> RunStart(m, t)
      [] m.tasks[t].pc = "for_head"   -> ForHead(m, t)
      [] m.tasks[t].pc = "for_wait"   -> ForWait(m, t)
      [] m.tasks[t].pc = "while_head" -> WhileHead(m, t)
      [] m.tasks[t].pc = "while_wait" -> WhileWait(m, t)
      [] m.tasks[t].pc = "turn_entry" -> TurnEntry(m, t)
      [] m.tasks[t].pc = "turn_wait"  -> TurnWait(m, t)
      [] m.tasks[t].pc = "turn_ret"   -> TurnRet(m, t)
      [] m.tasks[t].pc = "summary"    -> Summary(m, t)
      [] m.tasks[t].pc = "for_next"   -> ForNext(m, t)
      [] m.tasks[t].pc = "run_done"   -> RunDone(m, t)

RECURSIVE Settle(_)
\* run what is runnable, the task created first going first
Settle(m) ==
    IF ReadyTasks(m) = {}
    THEN m
    ELSE Settle(ReadyStep(m, CHOOSE t \in ReadyTasks(m) :
                                \A u \in ReadyTasks(m) : t <= u))

\* the engine fields the scheduler task reads and writes between awaits
Eng ==
    [status |-> status, phase |-> phase, phase_deadline |-> phase_deadline,
     expired |-> expired, agents |-> agents,
     stop_requested |-> stop_requested,
     advance_requested |-> advance_requested, pause_event |-> pause_event,
     tasks |-> tasks]

Commit(m) ==
    /\ status' = m.status
    /\ phase' = m.phase
    /\ phase_deadline' = m.phase_deadline
    /\ expired' = m.expired
    /\ agents' = m.agents
    /\ stop_requested' = m.stop_requested
    /\ advance_requested' = m.advance_requested
    /\ pause_event' = m.pause_event
    /\ tasks' = m.tasks

(***************************************************************************)
(* Init: SessionEngine.__init__, a session row with the column defaults of *)
(* db.py, and the agents added before the first start.                     *)
(***************************************************************************)
\* no call of _collect_memories is looked at
MemoryIdle ==
    /\ mem_store = <<>>
    /\ mem_roster = <<>>
    /\ memories = <<>>
    /\ mem_pc = "idle"

\* no call of get_phases is looked at
PhasesIdle ==
    /\ total_time = 0
    /\ phases = <<>>

\* no text is scored
ScoresIdle ==
    /\ sc_text = ""
    /\ sentiment = {}
    /\ confidence = {}

\* no call of _build_prompt is looked at
PromptIdle ==
    /\ pr_args = {}
    /\ prompt = ""

\* the websocket connections of a run, one queue each, in the order they
\* register
QueueIds == 1..3

\* SessionBroadcaster.__init__, and no websocket connected
BroadcasterInit ==
    /\ listeners = [sid \in {"s1", "s2"} |-> {}]
    /\ queues = [q \in QueueIds |-> <<>>]
    /\ conn = [q \in QueueIds |-> [sid |-> "", st |-> "new"]]
    /\ emitted = 0
    /\ since = [q \in QueueIds |-> 0]
    /\ got = [q \in QueueIds |-> 0]
    /\ bc_call = [op |-> "none", sid |-> "", raised |-> FALSE]

Init ==
    /\ MemoryIdle
    /\ PhasesIdle
    /\ BroadcasterInit
    /\ ScoresIdle
    /\ PromptIdle
    /\ status = "idle"
    /\ phase = "discover"
    /\ turn_index = 0
    /\ phase_deadline = None
    /\ expired = FALSE
    /\ agents = <<>>
    /\ stop_requested = FALSE
    /\ advance_requested = FALSE
    /\ pause_event = TRUE
    /\ call = NoCall
    /\ tasks = <<>>
    /\ cur_task = 0
    /\ db = [phase |-> "discover", status |-> "idle", turn_index |-> 0,
             deadline |-> None, ended_at |-> FALSE]
    /\ db_agents \in Rosters
    /\ out = <<>>
    /\ ins = <<>>
    /\ result = ""
    /\ late = {}

(***************************************************************************)
(* The control calls.  start, pause, resume and stop hold self._lock from  *)
(* their first statement to their return; advance_phase takes no lock.     *)
(***************************************************************************)
\* a step that broadcasts nothing and inserts nothing
Silent == out' = <<>> /\ ins' = <<>>

\* a call that returns or raises before its first await
Returns(how) ==
    /\ UNCHANGED <<status, phase, turn_index, phase_deadline, expired,
                   agents, stop_requested, advance_requested, pause_event,
                   call, tasks, cur_task, db, db_agents, late, aside>>
    /\ Silent
    /\ result' = how

\* a start that would never look at self._task
StartRejectedNever == FALSE

\* start: "if self._task and not self._task.done(): raise RuntimeError"
StartRejected == cur_task # 0 /\ ~TaskDone(cur_task)

\* a pause that would not look at the status
PauseAppliesAlways == TRUE

\* pause: "if self.status != 'running': return"
PauseApplies == status = "running"

\* resume: "if self.status != 'paused': return"
ResumeApplies == status = "paused"

\* stop: "if self.status in {'done', 'idle'} and not self._task: return"
StopSkips == status \in {"done", "idle"} /\ cur_task = 0

\* start, up to "await repo.update_session(...)"; restartable bounds the
\* starts that follow an earlier scheduler task
StartWith(restartable) ==
    /\ call = NoCall
    /\ IF StartRejected
       THEN Returns("start_raised_running")
       ELSE IF ~RosterOk(db_agents)
       THEN /\ agents' = db_agents
            /\ UNCHANGED <<status, phase, turn_index, phase_deadline,
                           expired, stop_requested, advance_requested,
                           pause_event, call, tasks, cur_task, db,
                           db_agents, late, aside>>
            /\ Silent
            /\ result' = "start_raised_roster"
       ELSE /\ cur_task = 0 \/ restartable
            /\ Len(Unfinished(tasks)) < MaxTasks
            /\ Commit(Settle([Eng EXCEPT !.agents = db_agents,
                                         !.status = "running",
                                         !.phase = db.phase,
                                         !.stop_requested = FALSE,
                                         !.advance_requested = FALSE,
                                         !.pause_event = TRUE]))
            /\ turn_index' = db.turn_index
            /\ call' = [op |-> "start", st |-> "running", ph |-> db.phase,
                        ti |-> db.turn_index]
            /\ UNCHANGED <<cur_task, db, db_agents, late, aside>>
            /\ Silent
            /\ result' = ""

\* start; a restart only when no operation of a cancelled task is still
\* in its thread
StartCall == StartWith(db.turn_index <= MaxRestartTurn /\ late = {})

\* start, also while operations of cancelled tasks are in their threads
StartWhileLate ==
    StartWith(/\ turn_index <= MaxRestartTurn
              /\ db.turn_index <= MaxRestartTurn
              /\ Cardinality(late) <= MaxLate)

\* start, from the completion of update_session: the status event and
\* "self._task = asyncio.create_task(self._run())"
StartComplete ==
    /\ call.op = "start"
    /\ db' = update_session(db, Some(call.ph), Some(call.st), Some(call.ti),
                            None, None)
    /\ out' = <<StatusEvent(status, phase, turn_index, phase_deadline)>>
    /\ ins' = <<>>
    /\ Commit(Settle([Eng EXCEPT
                         !.tasks = Append(Unfinished(tasks), NewTask)]))
    /\ cur_task' = Len(Unfinished(tasks)) + 1
    /\ call' = NoCall
    /\ result' = ""
    /\ UNCHANGED <<turn_index, db_agents, late, aside>>

PauseCall ==
    /\ call = NoCall
    /\ IF ~PauseApplies
       THEN Returns("pause_noop")
       ELSE /\ Commit(Settle([Eng EXCEPT !.status = "paused",
                                         !.pause_event = FALSE]))
            /\ call' = [NoCall EXCEPT !.op = "pause", !.st = "paused"]
            /\ UNCHANGED <<turn_index, cur_task, db, db_agents, late, aside>>
            /\ Silent
            /\ result' = ""

ResumeCall ==
    /\ call = NoCall
    /\ IF ~ResumeApplies
       THEN Returns("resume_noop")
       ELSE /\ Commit(Settle([Eng EXCEPT !.status = "running",
                                         !.pause_event = TRUE]))
            /\ call' = [NoCall EXCEPT !.op = "resume", !.st = "running"]
            /\ UNCHANGED <<turn_index, cur_task, db, db_agents, late, aside>>
            /\ Silent
            /\ result' = ""

\* pause and resume, from the completion of update_session(status=...)
PauseResumeComplete ==
    /\ call.op \in {"pause", "resume"}
    /\ db' = update_session(db, None, Some(call.st), None, None, None)
    /\ out' = <<StatusEvent(status, phase, turn_index, phase_deadline)>>
    /\ ins' = <<>>
    /\ call' = NoCall
    /\ result' = ""
    /\ UNCHANGED <<status, phase, turn_index, phase_deadline, expired,
                   agents, stop_requested, advance_requested, pause_event,
                   tasks, cur_task, db_agents, late, aside>>

\* a stop that would leave the pause gate as it is
StoppedGateShut(m) ==
    [m EXCEPT !.stop_requested = TRUE, !.status = "done"]

\* stop: "self._stop_requested = True", "self._pause_event.set()",
\* "self.status = 'done'"
Stopped(m) ==
    [m EXCEPT !.stop_requested = TRUE, !.pause_event = TRUE,
              !.status = "done"]

\* stop, up to "await repo.update_session(...)"
StopCall ==
    /\ call = NoCall
    /\ IF StopSkips
       THEN Returns("stop_noop")
       ELSE /\ Commit(Settle(Stopped(Eng)))
            /\ call' = [NoCall EXCEPT !.op = "stop", !.st = "done"]
            /\ UNCHANGED <<turn_index, cur_task, db, db_agents, late, aside>>
            /\ Silent
            /\ result' = ""

\* the row a task inserts into messages at l.389 (save_message)
MessageRow(r) ==
    [table |-> "messages", turn_index |-> turn_index, phase |-> phase,
     text |-> r.text]

\* the entry a task pushes to short-term memory (_append_memory)
MemoryRow(r) ==
    [table |-> "memory", turn_index |-> turn_index, phase |-> phase,
     text |-> r.text]

\* Applied, without the write of turn_index a turn awaits
AppliedUnlessTurn(row, r) ==
    CASE r.pc = "pl_update" ->
            update_session(row, Some(phase), None, None, phase_deadline,
                           None)
      [] r.pc = "fin_update" ->
            update_session(row, Some(phase), Some("done"), Some(turn_index),
                           None, Some(TRUE))
      [] OTHER -> row

\* the effect on the session row of the operation task record r awaits
Applied(row, r) ==
    CASE r.pc = "pl_update" ->
            update_session(row, Some(phase), None, None, phase_deadline,
                           None)
      [] r.pc = "turn_persist" ->
            update_session(row, None, None, Some(turn_index), None, None)
      [] r.pc = "fin_update" ->
            update_session(row, Some(phase), Some("done"), Some(turn_index),
                           None, Some(TRUE))
      [] OTHER -> row

\* the rows the operation task record r awaits inserts
Inserted(r) ==
    CASE r.pc = "turn_save" -> <<MessageRow(r)>>
      [] r.pc = "turn_memory" -> <<MemoryRow(r)>>
      [] OTHER -> <<>>

\* CancelledError raised at the await of task record r: from the body of
\* _run into the finally block, from the finally block out of the task
Cancelled(r) ==
    IF r.pc = "fin_update"
    THEN Ended([r EXCEPT !.cancelled = TRUE], "cancelled")
    ELSE [r EXCEPT !.pc = "fin_update", !.cancelled = TRUE, !.idx = 0,
                   !.cycles = 0, !.slot = "none", !.k = 0, !.text = "",
                   !.turns = 0]

\* pcs at which the awaited operation writes (the others read or stream)
WritePcs == {"pl_update", "turn_persist", "turn_save", "turn_memory",
             "fin_update"}

\* the operation task record r awaits, with the arguments it was given
Operation(r) ==
    [pc |-> r.pc, phase |-> phase, turn_index |-> turn_index,
     deadline |-> phase_deadline, text |-> r.text]

\* the effect on the session row of an operation a cancelled task left
Landed(row, o) ==
    CASE o.pc = "pl_update" ->
            update_session(row, Some(o.phase), None, None, o.deadline, None)
      [] o.pc = "turn_persist" ->
            update_session(row, None, None, Some(o.turn_index), None, None)
      [] o.pc = "fin_update" ->
            update_session(row, Some(o.phase), Some("done"),
                           Some(o.turn_index), None, Some(TRUE))
      [] OTHER -> row

\* the rows an operation a cancelled task left inserts
LandedRows(o) ==
    CASE o.pc = "turn_save" ->
            <<[table |-> "messages", turn_index |-> o.turn_index,
               phase |-> o.phase, text |-> o.text]>>
      [] o.pc = "turn_memory" ->
            <<[table |-> "memory", turn_index |-> o.turn_index,
               phase |-> o.phase, text |-> o.text]>>
      [] OTHER -> <<>>

\* what became of the operation a task awaited when cancel() reached it:
\* carried out already, never carried out, or left running in its thread
CancelOutcomes == {"applied", "dropped", "left"}

\* stop, from the completion of update_session: the status event, then
\* "if self._task and not self._task.done(): self._task.cancel()".
\* asyncio.to_thread cannot interrupt the thread that runs the operation.
StopComplete ==
    /\ call.op = "stop"
    /\ call' = NoCall
    /\ result' = ""
    /\ out' = <<StatusEvent(status, phase, turn_index, phase_deadline)>>
    /\ UNCHANGED <<status, phase, turn_index, phase_deadline, expired,
                   agents, stop_requested, advance_requested, pause_event,
                   cur_task, db_agents, aside>>
    /\ LET row == update_session(db, None, Some(call.st), None, None,
                                 Some(TRUE))
       IN  IF cur_task # 0 /\ ~TaskDone(cur_task)
           THEN \E how \in CancelOutcomes :
                   /\ how = "left" => tasks[cur_task].pc \in WritePcs
                   /\ db' = IF how = "applied"
                            THEN Applied(row, tasks[cur_task]) ELSE row
                   /\ ins' = IF how = "applied"
                             THEN Inserted(tasks[cur_task]) ELSE <<>>
                   /\ late' = IF how = "left"
                              THEN late \cup {Operation(tasks[cur_task])}
                              ELSE late
                   /\ tasks' = [tasks EXCEPT
                                   ![cur_task] = Cancelled(tasks[cur_task])]
           ELSE /\ db' = row
                /\ ins' = <<>>
                /\ UNCHANGED <<tasks, late>>

\* an operation a cancelled task left in its thread is carried out
LateWrite ==
    /\ \E o \in late :
          /\ db' = Landed(db, o)
          /\ ins' = LandedRows(o)
          /\ late' = late \ {o}
    /\ out' = <<>>
    /\ result' = ""
    /\ UNCHANGED <<status, phase, turn_index, phase_deadline, expired,
                   agents, stop_requested, advance_requested, pause_event,
                   call, tasks, cur_task, db_agents, aside>>

\* advance_phase: sets the flag and opens the gate, whatever the status
AdvancePhase ==
    /\ Commit(Settle([Eng EXCEPT !.advance_requested = TRUE,
                                 !.pause_event = TRUE]))
    /\ Silent
    /\ result' = ""
    /\ UNCHANGED <<turn_index, call, cur_task, db, db_agents, late, aside>>

\* the clock passes the deadline of the phase
Tick ==
    /\ phase_deadline # None
    /\ ~expired
    /\ expired' = TRUE
    /\ Silent
    /\ result' = ""
    /\ UNCHANGED <<status, phase, turn_index, phase_deadline, agents,
                   stop_requested, advance_requested, pause_event, call,
                   tasks, cur_task, db, db_agents, late, aside>>

(***************************************************************************)
(* The scheduler task: one action per completion of an awaited operation.  *)
(***************************************************************************)
\* what a step of task t leaves alone besides the engine fields
TaskFrame ==
    /\ result' = ""
    /\ UNCHANGED <<call, cur_task, db_agents, late, aside>>

\* _run_phase_loop, from the completion of update_session(phase, deadline):
\* the events phase.changed and session.status, then the while loop
PlUpdate(t) ==
    /\ t <= Len(tasks)
    /\ tasks[t].pc = "pl_update"
    /\ db' = Applied(db, tasks[t])
    /\ out' = <<Event("phase.changed", ""),
                StatusEvent(status, phase, turn_index, phase_deadline)>>
    /\ ins' = <<>>
    /\ Commit(Settle(SetTask(Eng, t, [tasks[t] EXCEPT !.pc = "while_head",
                                                      !.cycles = 0])))
    /\ UNCHANGED turn_index
    /\ TaskFrame

\* _turn_for_agent, from the completion of the memory and notepad reads:
\* "self.turn_index += 1", up to the await of update_session(turn_index)
TurnRead(t) ==
    /\ t <= Len(tasks)
    /\ tasks[t].pc = "turn_read"
    /\ turn_index' = turn_index + 1
    /\ Commit(SetTask(Eng, t, [tasks[t] EXCEPT
                                  !.pc = "turn_persist",
                                  !.turns = IF tasks[t].slot = "summary"
                                            THEN @ ELSE @ + 1]))
    /\ Silent
    /\ UNCHANGED db
    /\ TaskFrame

\* from the completion of update_session(turn_index): the status event,
\* up to the first chunk of the stream
TurnPersist(t) ==
    /\ t <= Len(tasks)
    /\ tasks[t].pc = "turn_persist"
    /\ db' = Applied(db, tasks[t])
    /\ out' = <<StatusEvent(status, phase, turn_index, phase_deadline)>>
    /\ ins' = <<>>
    /\ Commit(SetTask(Eng, t, [tasks[t] EXCEPT !.pc = "turn_stream",
                                               !.text = ""]))
    /\ UNCHANGED turn_index
    /\ TaskFrame

\* the chunks of a stream, by what strip() makes of them: " " is a chunk
\* of white space, "w" a chunk with another character
Deltas == {" ", "w"}

\* "text += delta", by the same two classes
Accum(text, delta) == IF text = "w" \/ delta = "w" THEN "w" ELSE " "

\* FinalText, without the placeholder
FinalTextKept(text) == text

\* "final_text = text.strip() or '[no response]'"
FinalText(text) == IF text = "w" THEN "w" ELSE "[no response]"

\* a chunk arrives: the event token.delta
StreamChunk(t) ==
    /\ t <= Len(tasks)
    /\ tasks[t].pc = "turn_stream"
    /\ \E delta \in Deltas :
          Commit(SetTask(Eng, t, [tasks[t] EXCEPT
                                     !.text = Accum(@, delta)]))
    /\ out' = <<Event("token.delta", "")>>
    /\ ins' = <<>>
    /\ UNCHANGED <<turn_index, db>>
    /\ TaskFrame

\* the stream ends: the final text, up to the await of save_message
StreamEnd(t) ==
    /\ t <= Len(tasks)
    /\ tasks[t].pc = "turn_stream"
    /\ Commit(SetTask(Eng, t, [tasks[t] EXCEPT !.pc = "turn_save",
                                               !.text = FinalText(@)]))
    /\ Silent
    /\ UNCHANGED <<turn_index, db>>
    /\ TaskFrame

\* the stream raises: "except Exception" emits error scope=agent, return
StreamFail(t) ==
    /\ t <= Len(tasks)
    /\ tasks[t].pc = "turn_stream"
    /\ out' = <<Event("error", "agent")>>
    /\ ins' = <<>>
    /\ Commit(Settle(SetTask(Eng, t, [tasks[t] EXCEPT !.pc = "turn_ret",
                                                      !.text = ""])))
    /\ UNCHANGED <<turn_index, db>>
    /\ TaskFrame

\* from the completion of save_message, up to the await of _append_memory
TurnSave(t) ==
    /\ t <= Len(tasks)
    /\ tasks[t].pc = "turn_save"
    /\ ins' = Inserted(tasks[t])
    /\ out' = <<>>
    /\ Commit(SetTask(Eng, t, [tasks[t] EXCEPT !.pc = "turn_memory"]))
    /\ UNCHANGED <<turn_index, db>>
    /\ TaskFrame

\* from the completion of _append_memory: the event message.created, the
\* return of the turn, and the scheduler up to its next await
TurnMemory(t) ==
    /\ t <= Len(tasks)
    /\ tasks[t].pc = "turn_memory"
    /\ ins' = Inserted(tasks[t])
    /\ out' = <<Event("message.created", "")>>
    /\ Commit(Settle(SetTask(Eng, t, [tasks[t] EXCEPT !.pc = "turn_ret",
                                                      !.text = ""])))
    /\ UNCHANGED <<turn_index, db>>
    /\ TaskFrame

\* the finally block of _run, from the completion of its update_session:
\* the status event, then the task ends (re-raising a CancelledError)
FinUpdate(t) ==
    /\ t <= Len(tasks)
    /\ tasks[t].pc = "fin_update"
    /\ db' = Applied(db, tasks[t])
    /\ out' = <<StatusEvent(status, phase, turn_index, phase_deadline)>>
    /\ ins' = <<>>
    /\ Commit(SetTask(Eng, t,
          Ended(tasks[t], IF tasks[t].cancelled THEN "cancelled"
                          ELSE "finished")))
    /\ UNCHANGED turn_index
    /\ TaskFrame

\* the awaits of the body of _run at which a database or Redis operation
\* can raise
CrashPcs == {"pl_update", "turn_read", "turn_persist", "turn_save",
             "turn_memory"}

\* an operation raises: "except Exception" of _run emits error
\* scope=session, then the finally block up to its await
Crash(t) ==
    /\ t <= Len(tasks)
    /\ tasks[t].pc \in CrashPcs
    /\ out' = <<Event("error", "session")>>
    /\ ins' = <<>>
    /\ Commit(SetTask(Eng, t, [tasks[t] EXCEPT
                                  !.pc = "fin_update", !.crashed = TRUE,
                                  !.sessErr = @ + 1, !.idx = 0,
                                  !.cycles = 0, !.slot = "none", !.k = 0,
                                  !.text = "", !.turns = 0]))
    /\ UNCHANGED <<turn_index, db>>
    /\ TaskFrame

TaskStep(t) ==
    \/ PlUpdate(t)
    \/ TurnRead(t)
    \/ TurnPersist(t)
    \/ StreamChunk(t)
    \/ StreamEnd(t)
    \/ StreamFail(t)
    \/ TurnSave(t)
    \/ TurnMemory(t)
    \/ FinUpdate(t)
    \/ Crash(t)

Next ==
    \/ StartCall
    \/ StartComplete
    \/ PauseCall
    \/ ResumeCall
    \/ PauseResumeComplete
    \/ StopCall
    \/ StopComplete
    \/ LateWrite
    \/ AdvancePhase
    \/ Tick
    \/ \E t \in 1..MaxTasks : TaskStep(t)

Spec == Init /\ [][Next]_vars

\* the engine with a roster of two participants around the moderator and
\* the note-taker
InitTurns ==
    /\ MemoryIdle
    /\ PhasesIdle
    /\ BroadcasterInit
    /\ ScoresIdle
    /\ PromptIdle
    /\ status = "idle"
    /\ phase = "discover"
    /\ turn_index = 0
    /\ phase_deadline = None
    /\ expired = FALSE
    /\ agents = <<>>
    /\ stop_requested = FALSE
    /\ advance_requested = FALSE
    /\ pause_event = TRUE
    /\ call = NoCall
    /\ tasks = <<>>
    /\ cur_task = 0
    /\ db = [phase |-> "discover", status |-> "idle", turn_index |-> 0,
             deadline |-> None, ended_at |-> FALSE]
    /\ db_agents = <<"participant", "moderator", "notetaker", "participant">>
    /\ out = <<>>
    /\ ins = <<>>
    /\ result = ""
    /\ late = {}

SpecTurns == InitTurns /\ [][Next]_vars

\* the engine under start, stop and its scheduler task alone, a start
\* being accepted whatever cancelled tasks have left in their threads
NextRestart ==
    \/ StartWhileLate
    \/ StartComplete
    \/ StopCall
    \/ StopComplete
    \/ LateWrite
    \/ \E t \in 1..MaxTasks : TaskStep(t)

SpecRestart == Init /\ [][NextRestart]_vars

(***************************************************************************)
(* _collect_memories, called on the short-term memory of two agents.       *)
(***************************************************************************)
\* the engine before its first start, with a roster that can be started
EngineIdle ==
    /\ status = "idle"
    /\ phase = "discover"
    /\ turn_index = 0
    /\ phase_deadline = None
    /\ expired = FALSE
    /\ agents = <<>>
    /\ stop_requested = FALSE
    /\ advance_requested = FALSE
    /\ pause_event = TRUE
    /\ call = NoCall
    /\ tasks = <<>>
    /\ cur_task = 0
    /\ db = [phase |-> "discover", status |-> "idle", turn_index |-> 0,
             deadline |-> None, ended_at |-> FALSE]
    /\ db_agents = <<"participant", "moderator", "notetaker">>
    /\ out = <<>>
    /\ ins = <<>>
    /\ result = ""
    /\ late = {}

\* agent["name"] of the agents of the roster
AgentNames == {"a", "b"}

\* the orders list_agents can return them in
MemoryRosters == {<<"a", "b">>, <<"b", "a">>}

\* the entry _append_memory stores (its text does not matter to the merge)
Entry(name, ti) == [agent |-> name, turn_index |-> ti]

Min(a, b) == IF a <= b THEN a ELSE b

MaxOf(S) == CHOOSE x \in S : \A y \in S : y <= x

RECURSIVE Stored(_, _)
\* the list lpush builds for an agent that spoke at the turns S: newest
\* first
Stored(name, S) ==
    IF S = {} THEN <<>>
    ELSE <<Entry(name, MaxOf(S))>> \o Stored(name, S \ {MaxOf(S)})

\* Redis LRANGE key first last (0-based, both ends included)
lrange(list, first, last) ==
    SubSeq(list, first + 1, Min(last + 1, Len(list)))

\* reversed(items)
Reversed(s) == [i \in 1..Len(s) |-> s[Len(s) + 1 - i]]

\* _fetch(key): the newest SHORT_TERM_LIMIT entries, oldest first
fetch(store, key) == Reversed(lrange(store[key], 0, SHORT_TERM_LIMIT - 1))

RECURSIVE Merged(_, _)
\* "for entries in results: merged.extend(entries)": asyncio.gather
\* returns the results in the order of keys
Merged(keys, store) ==
    IF keys = <<>> THEN <<>>
    ELSE Merged(SubSeq(keys, 1, Len(keys) - 1), store)
            \o fetch(store, keys[Len(keys)])

\* an insertion that would put an entry before those of equal turn_index
InsertedBeforeEqual(s, e) ==
    LET n == Cardinality({i \in 1..Len(s) :
                             s[i].turn_index < e.turn_index})
    IN  SubSeq(s, 1, n) \o <<e>> \o SubSeq(s, n + 1, Len(s))

\* e, which followed every entry of the sorted s in the input, put after
\* the entries of s whose turn_index is at most its own
InsertedStable(s, e) ==
    LET n == Cardinality({i \in 1..Len(s) :
                             s[i].turn_index <= e.turn_index})
    IN  SubSeq(s, 1, n) \o <<e>> \o SubSeq(s, n + 1, Len(s))

RECURSIVE sorted(_)
\* sorted(merged, key=lambda entry: entry.get("turn_index", 0)): stable
sorted(s) ==
    IF s = <<>> THEN <<>>
    ELSE InsertedStable(sorted(SubSeq(s, 1, Len(s) - 1)), s[Len(s)])

\* merged[-SHORT_TERM_LIMIT:]
LastLimit(s) == SubSeq(s, Max(1, Len(s) - SHORT_TERM_LIMIT + 1), Len(s))

collect_memories(keys, store) ==
    IF keys = <<>> THEN <<>>
    ELSE LastLimit(sorted(Merged(keys, store)))

\* the roster in one of its orders, and for each agent the turns it spoke at
InitMemory ==
    /\ EngineIdle
    /\ PhasesIdle
    /\ BroadcasterInit
    /\ ScoresIdle
    /\ PromptIdle
    /\ mem_roster \in MemoryRosters
    /\ \E turns \in [AgentNames -> SUBSET (1..MaxTurnIdx)] :
          mem_store = [name \in AgentNames |-> Stored(name, turns[name])]
    /\ memories = <<>>
    /\ mem_pc = "call"

CollectMemories ==
    /\ mem_pc = "call"
    /\ memories' = collect_memories(mem_roster, mem_store)
    /\ mem_pc' = "return"
    /\ UNCHANGED <<mem_store, mem_roster, engine_vars, phase_vars,
                   broadcast_vars, score_vars, prompt_vars>>

NextMemory == CollectMemories

SpecMemory == InitMemory /\ [][NextMemory]_vars

(***************************************************************************)
(* _append_memory and _collect_memories over a run: the roster of two      *)
(* agents, by their names; the names may be equal (table agents has no     *)
(* constraint on name), and then both agents have the key of one list.     *)
(***************************************************************************)
\* agent["name"] of the two agents of the roster, in stored order
AppendRosters == {<<"a", "b">>, <<"a", "a">>}

\* the turn_index of the entries stored so far (turn_index only grows)
StoredTurns ==
    UNION {{mem_store[name][i].turn_index : i \in 1..Len(mem_store[name])} :
           name \in AgentNames}

\* self.turn_index of the turn that appends next
NextTurn == IF StoredTurns = {} THEN 1 ELSE MaxOf(StoredTurns) + 1

\* the key of the list whose head is the newest entry
NewestKey ==
    CHOOSE name \in AgentNames :
       /\ mem_store[name] # <<>>
       /\ mem_store[name][1].turn_index = MaxOf(StoredTurns)

\* Redis LTRIM key first last (0-based, both ends included)
ltrim(list, first, last) == lrange(list, first, last)

AppendFrame ==
    UNCHANGED <<mem_roster, engine_vars, phase_vars, broadcast_vars,
                score_vars, prompt_vars>>

InitAppend ==
    /\ EngineIdle
    /\ PhasesIdle
    /\ BroadcasterInit
    /\ ScoresIdle
    /\ PromptIdle
    /\ mem_roster \in AppendRosters
    /\ mem_store = [name \in AgentNames |-> <<>>]
    /\ memories = <<>>
    /\ mem_pc = "idle"

\* _append_memory of the k-th agent of the roster, up to its await of
\* ltrim: "await _redis.lpush(key, entry)" has been carried out
Lpush(k) ==
    /\ mem_pc = "idle"
    /\ NextTurn <= MaxAppends
    /\ mem_store' = [mem_store EXCEPT ![mem_roster[k]] =
                        <<Entry(mem_roster[k], NextTurn)>> \o @]
    /\ mem_pc' = "ltrim"
    /\ UNCHANGED memories
    /\ AppendFrame

\* "await _redis.ltrim(key, 0, SHORT_TERM_LIMIT - 1)" is carried out
Ltrim ==
    /\ mem_pc = "ltrim"
    /\ mem_store' = [mem_store EXCEPT ![NewestKey] =
                        ltrim(@, 0, SHORT_TERM_LIMIT - 1)]
    /\ mem_pc' = "idle"
    /\ UNCHANGED memories
    /\ AppendFrame

\* the task is cancelled at the await of ltrim, which is not carried out
LtrimCancelled ==
    /\ mem_pc = "ltrim"
    /\ mem_pc' = "idle"
    /\ UNCHANGED <<mem_store, memories>>
    /\ AppendFrame

\* _collect_memories at the beginning of a turn
CollectForTurn ==
    /\ mem_pc = "idle"
    /\ memories' = collect_memories(mem_roster, mem_store)
    /\ UNCHANGED <<mem_store, mem_pc>>
    /\ AppendFrame

NextAppend ==
    \/ \E k \in 1..2 : Lpush(k)
    \/ Ltrim
    \/ LtrimCancelled
    \/ CollectForTurn

SpecAppend == InitAppend /\ [][NextAppend]_vars

(***************************************************************************)
(* get_phases, called on a total time.                                     *)
(***************************************************************************)
InitPhases ==
    /\ EngineIdle
    /\ MemoryIdle
    /\ BroadcasterInit
    /\ ScoresIdle
    /\ PromptIdle
    /\ total_time \in 0..MaxTotalSec
    /\ phases = <<>>

GetPhases ==
    /\ phases = <<>>
    /\ phases' = get_phases(total_time)
    /\ UNCHANGED <<total_time, engine_vars, memory_vars, broadcast_vars,
                   score_vars, prompt_vars>>

NextPhases == GetPhases

SpecPhases == InitPhases /\ [][NextPhases]_vars

(***************************************************************************)
(* engine/ws.py: the SessionBroadcaster, and the websocket handlers of     *)
(* main.py that register a queue, consume it and unregister it.  No method *)
(* of the broadcaster suspends (its lock is never held across an await),   *)
(* so each call is one step.                                               *)
(***************************************************************************)
Sessions == {"s1", "s2"}

\* the envelope emit builds; seq stands for its payload and timestamp
Message(sid, type) ==
    [session_id |-> sid, event |-> type, seq |-> emitted + 1]

\* an emit that would put the event behind a full queue
OfferedUnbounded(queue, message) == Append(queue, message)

\* emit, for one queue: put_nowait; on QueueFull get_nowait (the oldest
\* item) and put_nowait again; on QueueFull again, skip
Offered(queue, message) ==
    IF Len(queue) < MaxQueueSize
    THEN Append(queue, message)
    ELSE LET rest == IF queue # <<>> THEN Tail(queue) ELSE queue
         IN  IF Len(rest) < MaxQueueSize
             THEN Append(rest, message) ELSE rest

\* a snapshot that would take the queues of every session
SnapshotOfAll(sid) == UNION {listeners[s] : s \in Sessions}

\* emit: "listeners = set(self._listeners.get(session_id, set()))"
Snapshot(sid) == listeners[sid]

\* a get that would leave the item in the queue
DequeuedNothing(queue) == queue

\* queue.get(): the items that stay
Dequeued(queue) == Tail(queue)

BcCall(op, sid, raised) == [op |-> op, sid |-> sid, raised |-> raised]

\* what a step of the broadcaster model leaves alone
BroadcastFrame ==
    UNCHANGED <<engine_vars, memory_vars, phase_vars, score_vars,
                prompt_vars>>

\* session_stream: "queue = await session_broadcaster.register(sid)"
Register(q, sid) ==
    /\ conn[q].st = "new"
    /\ \A p \in 1..(q - 1) : conn[p].st # "new"
    /\ queues' = [queues EXCEPT ![q] = <<>>]
    /\ listeners' = [listeners EXCEPT ![sid] = @ \cup {q}]
    /\ conn' = [conn EXCEPT ![q] = [sid |-> sid, st |-> "open"]]
    /\ since' = [since EXCEPT ![q] = emitted]
    /\ bc_call' = BcCall("none", "", FALSE)
    /\ UNCHANGED <<emitted, got>>
    /\ BroadcastFrame

\* session_stream: "event = await queue.get()" returns an item
Get(q) ==
    /\ conn[q].st = "open"
    /\ queues[q] # <<>>
    /\ got' = [got EXCEPT ![q] = Head(queues[q]).seq]
    /\ queues' = [queues EXCEPT ![q] = Dequeued(@)]
    /\ bc_call' = BcCall("none", "", FALSE)
    /\ UNCHANGED <<listeners, conn, emitted, since>>
    /\ BroadcastFrame

\* session_stream: the handler leaves its loop (WebSocketDisconnect, or
\* another exception) and unregisters in the finally block; it returns,
\* and nothing refers to its queue any more
Unregister(q) ==
    /\ conn[q].st = "open"
    /\ listeners' = [listeners EXCEPT ![conn[q].sid] = @ \ {q}]
    /\ conn' = [conn EXCEPT ![q] = [sid |-> "", st |-> "closed"]]
    /\ queues' = [queues EXCEPT ![q] = <<>>]
    /\ since' = [since EXCEPT ![q] = 0]
    /\ got' = [got EXCEPT ![q] = 0]
    /\ bc_call' = BcCall("none", "", FALSE)
    /\ UNCHANGED emitted
    /\ BroadcastFrame

\* emit(session_id, ...)
Emit(sid) ==
    /\ emitted < MaxEmits
    /\ LET message == Message(sid, "event")
       IN  /\ queues' = [q \in QueueIds |->
                            IF q \in Snapshot(sid)
                            THEN Offered(queues[q], message)
                            ELSE queues[q]]
    /\ emitted' = emitted + 1
    /\ bc_call' = BcCall("emit", sid, FALSE)
    /\ UNCHANGED <<listeners, conn, since, got>>
    /\ BroadcastFrame

\* close_session(session_id): the listeners are popped, then put_nowait
\* on each in the iteration order of the set; a full queue raises
\* QueueFull, which ends the loop
CloseSession(sid) ==
    /\ emitted < MaxEmits
    /\ LET message == Message(sid, "session.closed")
           full == {q \in listeners[sid] : Len(queues[q]) >= MaxQueueSize}
       IN  /\ \E reached \in SUBSET (listeners[sid] \ full) :
                 /\ full = {} => reached = listeners[sid]
                 /\ queues' = [q \in QueueIds |->
                                  IF q \in reached
                                  THEN Append(queues[q], message)
                                  ELSE queues[q]]
           /\ bc_call' = BcCall("close_session", sid, full # {})
    /\ emitted' = emitted + 1
    /\ listeners' = [listeners EXCEPT ![sid] = {}]
    /\ UNCHANGED <<conn, since, got>>
    /\ BroadcastFrame

InitBroadcaster ==
    /\ EngineIdle
    /\ MemoryIdle
    /\ PhasesIdle
    /\ BroadcasterInit
    /\ ScoresIdle
    /\ PromptIdle

NextBroadcaster ==
    \/ \E q \in QueueIds, sid \in Sessions : Register(q, sid)
    \/ \E q \in QueueIds : Get(q)
    \/ \E q \in QueueIds : Unregister(q)
    \/ \E sid \in Sessions : Emit(sid)
    \/ \E sid \in Sessions : CloseSession(sid)

SpecBroadcaster == InitBroadcaster /\ [][NextBroadcaster]_vars

(***************************************************************************)
(* _sentiment_score and _confidence_score, called on the final text of a   *)
(* turn.  A text is a string; a float is the fraction it stands for, in    *)
(* lowest terms.                                                           *)
(***************************************************************************)
POSITIVE_WORDS ==
    {"great", "good", "excellent", "positive", "promising", "excited",
     "glad", "happy", "optimistic"}

NEGATIVE_WORDS ==
    {"bad", "concern", "worried", "negative", "risky", "uncertain",
     "problem", "issue", "doubt", "frustrated", "blocked"}

HEDGE_WORDS ==
    {"maybe", "perhaps", "possibly", "unsure", "might", "could", "guess",
     "uncertain", "probably"}

Char(t, i) == SubSeq(t, i, i)

UpperCase == "ABCDEFGHIJKLMNOPQRSTUVWXYZ"

LowerCase == "abcdefghijklmnopqrstuvwxyz"

\* the lower-case letter of each upper-case letter
ToLower ==
    [c \in {Char(UpperCase, i) : i \in 1..Len(UpperCase)} |->
        Char(LowerCase, CHOOSE i \in 1..Len(UpperCase) :
                           Char(UpperCase, i) = c)]

LowerChar(c) == IF c \in DOMAIN ToLower THEN ToLower[c] ELSE c

\* a lower() that would leave the text as it is
lower_kept(t) == t

RECURSIVE lower(_)
\* str.lower(): every character in lower case (the text is taken by halves)
lower(t) ==
    IF Len(t) <= 1 THEN LowerChar(t)
    ELSE lower(SubSeq(t, 1, Len(t) \div 2))
            \o lower(SubSeq(t, Len(t) \div 2 + 1, Len(t)))

\* "word in text_lower": w occurs in t as a substring
Contains(t, w) ==
    \E i \in 1..(Len(t) - Len(w) + 1) : SubSeq(t, i, i + Len(w) - 1) = w

\* "sum(1 for word in WORDS if word in text_lower)"
Hits(words, text_lower) ==
    Cardinality({word \in words : Contains(text_lower, word)})

Abs(n) == IF n < 0 THEN 0 - n ELSE n

RECURSIVE GCD(_, _)
GCD(a, b) == IF b = 0 THEN a ELSE GCD(b, a % b)

\* the float n/d (d > 0)
Ratio(n, d) ==
    LET g == GCD(Abs(n), d)
    IN  [num |-> n \div g, den |-> d \div g]

RAdd(x, y) == Ratio(x.num * y.den + y.num * x.den, x.den * y.den)

RMul(x, y) == Ratio(x.num * y.num, x.den * y.den)

RLess(x, y) == x.num * y.den < y.num * x.den

\* max(lo, min(hi, x))
Clamped(lo, hi, x) ==
    LET m == IF RLess(x, hi) THEN x ELSE hi
    IN  IF RLess(m, lo) THEN lo ELSE m

\* "return max(-1.0, min(1.0, score))"
sentiment_range(score) == Clamped(Ratio(-1, 1), Ratio(1, 1), score)

sentiment_score(t) ==
    LET text_lower == lower(t)
        pos == Hits(POSITIVE_WORDS, text_lower)
        neg == Hits(NEGATIVE_WORDS, text_lower)
    IN  IF pos = 0 /\ neg = 0
        THEN Ratio(0, 1)
        ELSE sentiment_range(Ratio(pos - neg, Max(pos + neg, 1)))

\* [:\s] of CONFIDENCE_RE
IsSep(c) == c \in {":", " ", "\n", "\t"}

Digits == "0123456789"

\* \d of CONFIDENCE_RE
IsDigit(c) == \E i \in 1..Len(Digits) : Char(Digits, i) = c

DigitVal(c) == (CHOOSE i \in 1..Len(Digits) : Char(Digits, i) = c) - 1

\* where the run of characters of class P that starts at i ends (the
\* position after its last character): + and the greedy \d+
RunEnd(t, i, P(_)) ==
    CHOOSE j \in i..(Len(t) + 1) :
       /\ \A k \in i..(j - 1) : P(Char(t, k))
       /\ j = Len(t) + 1 \/ ~P(Char(t, j))

\* CONFIDENCE_RE matches at position i of t (re.IGNORECASE: the letters of
\* the text are compared in lower case)
MatchAt(t, i) ==
    LET k == RunEnd(t, i + 10, IsSep)
    IN  /\ i + 9 <= Len(t)
        /\ \A n \in 1..10 :
              LowerChar(Char(t, i + n - 1)) = Char("confidence", n)
        /\ k > i + 10
        /\ k <= Len(t)
        /\ Char(t, k) \in {"0", "1"}

\* group 1 of the match at i: [01](?:\.\d+)?
Group(t, i) ==
    LET k == RunEnd(t, i + 10, IsSep)
    IN  IF /\ k + 2 <= Len(t)
           /\ Char(t, k + 1) = "."
           /\ IsDigit(Char(t, k + 2))
        THEN SubSeq(t, k, RunEnd(t, k + 2, IsDigit) - 1)
        ELSE Char(t, k)

\* CONFIDENCE_RE.search(text): group 1 of the leftmost match, or None
search(t) ==
    LET S == {i \in 1..Len(t) : MatchAt(t, i)}
    IN  IF S = {} THEN None
        ELSE Some(Group(t, CHOOSE i \in S : \A j \in S : i <= j))

RECURSIVE Number(_)
\* the number a string of digits denotes
Number(ds) ==
    IF ds = "" THEN 0
    ELSE 10 * Number(SubSeq(ds, 1, Len(ds) - 1)) + DigitVal(Char(ds, Len(ds)))

RECURSIVE Pow10(_)
Pow10(n) == IF n = 0 THEN 1 ELSE 10 * Pow10(n - 1)

\* float(group): group is a digit, or a digit, a point and digits
float(group) ==
    LET frac == SubSeq(group, 3, Len(group))
    IN  Ratio(Number(Char(group, 1) \o frac), Pow10(Len(frac)))

\* round(x, 3): to the nearest thousandth, a tie to the even one
round3(x) ==
    LET n == x.num * 1000
        q == n \div x.den
        r == n % x.den
    IN  Ratio(IF 2 * r < x.den THEN q
              ELSE IF 2 * r > x.den THEN q + 1
              ELSE IF q % 2 = 0 THEN q ELSE q + 1,
              1000)

confidence_score(t) ==
    LET match == search(t)
        hedges == Hits(HEDGE_WORDS, lower(t))
        auto_conf == Clamped(Ratio(0, 1), Ratio(1, 1),
                             Ratio(100 - 15 * hedges, 100))
    IN  IF match # None
        THEN round3(RAdd(RMul(Ratio(6, 10), float(Only(match))),
                         RMul(Ratio(4, 10), auto_conf)))
        ELSE round3(auto_conf)

\* white space as str.strip() sees it
IsSpace(c) == c \in {" ", "\n", "\t"}

RECURSIVE strip(_)
\* str.strip()
strip(t) ==
    IF t = "" THEN ""
    ELSE IF IsSpace(Char(t, 1)) THEN strip(SubSeq(t, 2, Len(t)))
    ELSE IF IsSpace(Char(t, Len(t))) THEN strip(SubSeq(t, 1, Len(t) - 1))
    ELSE t

\* "text = text_accum.strip()", "if not text: text = '[no response]'"
final_text(text_accum) ==
    IF strip(text_accum) = "" THEN "[no response]" ELSE strip(text_accum)

\* pieces of the texts a model streams
Fragments ==
    {"great, ", "excellent", "good but risky", "the sky is blue", "maybe, ",
     "perhaps", "Confidence: ", "0.9", "1.9",
     "Bad: might could possibly probably guess unsure"}

RECURSIVE Concat(_)
Concat(ws) == IF ws = <<>> THEN "" ELSE Head(ws) \o Concat(Tail(ws))

\* the text of a stream of 1..MaxWords fragments, as l.382-384 leave it
InitScores ==
    /\ EngineIdle
    /\ MemoryIdle
    /\ PhasesIdle
    /\ BroadcasterInit
    /\ PromptIdle
    /\ \E n \in 1..MaxWords :
          \E ws \in [1..n -> Fragments] : sc_text = final_text(Concat(ws))
    /\ sentiment = None
    /\ confidence = None

\* l.386-387: the two scores of the final text
Score ==
    /\ sentiment = None
    /\ sentiment' = Some(sentiment_score(sc_text))
    /\ confidence' = Some(confidence_score(sc_text))
    /\ UNCHANGED <<sc_text, engine_vars, memory_vars, phase_vars,
                   broadcast_vars, prompt_vars>>

NextScores == Score

SpecScores == InitScores /\ [][NextScores]_vars

(***************************************************************************)
(* build_prompt.  The prompt is the string it returns; the dash of its    *)
(* first line and the ellipsis of a cut notepad are written in ASCII.      *)
(***************************************************************************)
\* strategy/double_diamond.py, PHASE_ORDER: the objective of each phase
PHASE_OBJECTIVE ==
    [discover |-> "Explore the problem space, gather insights, and surface "
                  \o "open questions.",
     define   |-> "Synthesize findings into a clear problem statement and "
                  \o "prioritize needs.",
     develop  |-> "Generate solution concepts, stress test options, and "
                  \o "refine promising ideas.",
     deliver  |-> "Select a direction, outline execution steps, and call "
                  \o "out success metrics."]

\* the upper-case letter of each lower-case letter
ToUpper ==
    [c \in {Char(LowerCase, i) : i \in 1..Len(LowerCase)} |->
        Char(UpperCase, CHOOSE i \in 1..Len(LowerCase) :
                           Char(LowerCase, i) = c)]

RECURSIVE upper(_)
\* str.upper(): every character in upper case (the text is taken by halves)
upper(t) ==
    IF Len(t) <= 1
    THEN IF t \in DOMAIN ToUpper THEN ToUpper[t] ELSE t
    ELSE upper(SubSeq(t, 1, Len(t) \div 2))
            \o upper(SubSeq(t, Len(t) \div 2 + 1, Len(t)))

\* s[:n]
Prefix(s, n) == SubSeq(s, 1, Min(n, Len(s)))

RECURSIVE Join(_)
\* "\n".join(lines)
Join(lines) ==
    IF lines = <<>> THEN ""
    ELSE IF Len(lines) = 1 THEN lines[1]
    ELSE lines[1] \o "\n" \o Join(Tail(lines))

\* the line of the mode of the turn
ModeLine(a) ==
    IF a.summary_mode
    THEN "Provide a concise summary that transitions to the next phase."
    ELSE IF a.notepad_mode
    THEN "Update the shared notepad with key decisions and TODOs."
    ELSE "Respond succinctly (<=120 words). Advance the team's progress."

\* "Recent dialogue:" and a line for each of the last SHORT_TERM_LIMIT
\* memories
DialogueLines(a) ==
    IF a.memories = <<>> THEN <<>>
    ELSE <<"\nRecent dialogue:">> \o
         [i \in 1..Len(LastLimit(a.memories)) |->
             "- " \o LastLimit(a.memories)[i].agent \o ": "
                  \o Prefix(LastLimit(a.memories)[i].text, 260)]

\* the notepad, stripped and cut to 400 characters
NotepadLines(a) ==
    IF a.notepad = "" THEN <<>>
    ELSE LET preview == strip(a.notepad)
         IN  <<"\nNotepad snapshot:\n" \o
               (IF Len(preview) > 400
                THEN Prefix(preview, 400) \o "..." ELSE preview)>>

\* a = [agent, phase, memories, notepad, notepad_mode, summary_mode] and
\* the problem statement of the session row, which build_prompt is not
\* given and does not read
build_prompt(a) ==
    Join(<<"Session phase: " \o upper(a.phase) \o " - "
              \o PHASE_OBJECTIVE[a.phase],
           "You are " \o a.agent.name \o " (" \o a.agent.role \o ").">>
         \o (IF a.agent.trait # ""
             THEN <<"Trait guidance: " \o a.agent.trait \o ".">> ELSE <<>>)
         \o <<ModeLine(a)>>
         \o DialogueLines(a)
         \o NotepadLines(a)
         \o <<"\nState your confidence as 'Confidence: <value between 0 "
                 \o "and 1>'.">>)

RECURSIVE Repeated(_, _)
\* text n times
Repeated(text, n) ==
    IF n = 0 THEN ""
    ELSE IF n = 1 THEN text
    ELSE Repeated(text, n \div 2) \o Repeated(text, n - n \div 2)

\* the notepads of the calls: none, a short one, one of 410 characters
Notepads == {"", " TODO: interview five sellers ", Repeated("0123456789", 41)}

\* the memories of the calls: none, one entry, nine entries
MemoryLists ==
    { <<>>,
      <<[agent |-> "Alex", text |-> "Sellers leave after the first sale."]>>,
      [i \in 1..(SHORT_TERM_LIMIT + 1) |->
          [agent |-> IF i % 2 = 1 THEN "Alex" ELSE "Sam",
           text  |-> Repeated("turn ", i)]] }

\* the agents of the calls, by id name, role and trait
PromptAgents ==
    { [name |-> "Alex", role |-> "moderator", trait |-> ""],
      [name |-> "Sam", role |-> "participant", trait |-> "skeptical"],
      [name |-> "Noa", role |-> "notetaker", trait |-> ""] }

\* sessions.problem_statement of the session the engine runs
ProblemStatement == "Increase marketplace retention among new sellers."

\* the calls _turn_for_agent makes (l.323-330): the moderator in normal
\* and summary mode, a participant in normal mode, the note-taker in
\* notepad mode
InitPrompt ==
    /\ EngineIdle
    /\ MemoryIdle
    /\ PhasesIdle
    /\ BroadcasterInit
    /\ ScoresIdle
    /\ \E agent \in PromptAgents, summary_mode \in BOOLEAN,
          name \in DOMAIN PHASE_OBJECTIVE, mems \in MemoryLists,
          notepad \in Notepads :
          /\ summary_mode => agent.role = "moderator"
          /\ pr_args = [agent |-> agent, phase |-> name, memories |-> mems,
                        notepad |-> notepad,
                        notepad_mode |-> agent.role = "notetaker",
                        summary_mode |-> summary_mode,
                        problem_statement |-> ProblemStatement]
    /\ prompt = ""

BuildPrompt ==
    /\ prompt = ""
    /\ prompt' = build_prompt(pr_args)
    /\ UNCHANGED <<pr_args, engine_vars, memory_vars, phase_vars,
                   broadcast_vars, score_vars>>

NextPrompt == BuildPrompt

SpecPrompt == InitPrompt /\ [][NextPrompt]_vars

\* The update_session a stop awaits, and the one the finally block of the
\* scheduler task awaits, run in a worker thread and complete.
Fairness ==
    /\ WF_vars(StopComplete)
    /\ WF_vars(\E t \in 1..MaxTasks : FinUpdate(t))

SpecFair == Spec /\ Fairness

\* Fair scheduling: the update_session a control call or the finally block
\* awaits completes;
\* no scheduler task stays for ever at one of its awaits, a model stream
\* included (every stream is finite); and the status does not stay paused
\* (a pause is followed by a resume or a stop).
FairRun ==
    /\ Fairness
    /\ []<>(call = NoCall)
    /\ \A t \in 1..MaxTasks : \A p \in IOPcs :
          []<>(t <= Len(tasks) => tasks[t].pc # p)
    /\ []<>(status # "paused")

\* one run of the engine: the control calls and the scheduler task
NextLive ==
    \/ StartCall
    \/ StartComplete
    \/ PauseCall
    \/ ResumeCall
    \/ PauseResumeComplete
    \/ StopCall
    \/ StopComplete
    \/ \E t \in 1..MaxTasks : TaskStep(t)

SpecLive == Init /\ [][NextLive]_vars /\ FairRun

(***************************************************************************)
(* Properties                                                              *)
(***************************************************************************)
\* the scheduler task self._task refers to has ended
SchedulerExited == cur_task # 0 /\ tasks[cur_task].pc \in EndedPcs

\* a scheduler task is active
SchedulerActive == \E t \in 1..Len(tasks) : tasks[t].pc \notin EndedPcs

\* C1: once the scheduler task has exited, for whatever reason, the
\* persisted status is not "running", until a new start succeeds (which
\* persists "running" in the step that creates the next scheduler task).
C1_NotRunningAfterExit == SchedulerExited => db.status # "running"

\* the status changes the state machine of the specification lists
StatedMoves ==
    { <<"idle", "running">>, <<"running", "paused">>,
      <<"paused", "running">>, <<"running", "done">>,
      <<"paused", "done">> }

\* C2 as stated: status changes only along idle->running, running->paused,
\* paused->running, running/paused->done, and done is never left.
C2_StatedMoves ==
    [][status' # status => <<status, status'>> \in StatedMoves]_vars

\* C2, amended: status changes only along the stated moves or, by a start
\* that is accepted, from done back to running; pause, resume, stop,
\* advance_phase and the scheduler never change a status of done.
C2_MovesWithRestart ==
    [][status' # status =>
          \/ <<status, status'>> \in StatedMoves
          \/ /\ status = "done"
             /\ status' = "running"
             /\ call.op = "none"
             /\ call'.op = "start"]_vars

\* C2 witness: a start accepted on a session that was done
C2_Restarted ==
    /\ call.op = "start"
    /\ status = "running"
    /\ db.status = "done"
    /\ db.ended_at

\* C3: when the task ends after an exception escaped the phase loop, it
\* has emitted exactly one error event of scope session, and the status is
\* done in the engine and in the persisted record, with ended_at set.
C3_CrashEndsDone ==
    [][(/\ cur_task # 0
        /\ cur_task' = cur_task
        /\ tasks[cur_task].crashed
        /\ tasks[cur_task].pc = "fin_update"
        /\ tasks'[cur_task].pc = "finished")
       => /\ tasks'[cur_task].sessErr = 1
          /\ status' = "done"
          /\ db'.status = "done"
          /\ db'.ended_at]_vars

\* C4: at most one scheduler task is active; while the task of the engine
\* has not ended no start is accepted, and the start that is refused
\* leaves status, phase, turn_index, roster, tasks and the persisted
\* record as they were.
C4_OneScheduler ==
    [][/\ Cardinality({t \in 1..Len(tasks') :
                          tasks'[t].pc \notin EndedPcs}) <= 1
       /\ (cur_task # 0 /\ tasks[cur_task].pc \notin EndedPcs
           /\ call.op = "none") => call'.op # "start"
       /\ result' = "start_raised_running" =>
             /\ cur_task # 0 /\ tasks[cur_task].pc \notin EndedPcs
             /\ UNCHANGED <<status, phase, turn_index, agents, tasks,
                            cur_task, db>>
             /\ out' = <<>>]_vars

\* C4 witness: a start was refused while the scheduler task was active
C4_Refused == result = "start_raised_running" /\ SchedulerActive

\* the roster has a moderator and a participant
HasModeratorAndParticipant ==
    /\ \E i \in 1..Len(db_agents) : db_agents[i] = "moderator"
    /\ \E i \in 1..Len(db_agents) : db_agents[i] = "participant"

\* C5: a start is accepted only with a moderator and a participant in the
\* roster; the start that fails on the roster leaves the status, the
\* persisted record and the tasks as they were and broadcasts nothing.
C5_RosterRequired ==
    [][/\ (call.op = "none" /\ call'.op = "start") =>
             HasModeratorAndParticipant
       /\ Len(tasks') > Len(tasks) => HasModeratorAndParticipant
       /\ result' = "start_raised_roster" =>
             /\ ~HasModeratorAndParticipant
             /\ status' = status
             /\ status' # "running"
             /\ UNCHANGED <<db, tasks, cur_task, call>>
             /\ out' = <<>>]_vars

\* C5 witness: a start failed on a roster without a moderator
C5_Failed ==
    /\ result = "start_raised_roster"
    /\ db_agents = <<"participant", "notetaker">>
    /\ status = "idle"

\* C6: a pause takes effect only on a running session and a resume only on
\* a paused one; otherwise status, gate, phase, turn_index and the
\* persisted record stay as they were and nothing is broadcast.
C6_NoOps ==
    [][/\ (call.op = "none" /\ call'.op = "pause") => status = "running"
       /\ (call.op = "none" /\ call'.op = "resume") => status = "paused"
       /\ result' = "pause_noop" =>
             /\ status # "running"
             /\ UNCHANGED <<status, pause_event, phase, turn_index, db>>
             /\ out' = <<>>
       /\ result' = "resume_noop" =>
             /\ status # "paused"
             /\ UNCHANGED <<status, pause_event, phase, turn_index, db>>
             /\ out' = <<>>]_vars

\* C6 witness: a pause on a paused session returned without effect
C6_PauseOnPaused ==
    /\ result = "pause_noop"
    /\ status = "paused"
    /\ ~pause_event

\* C7: between control calls, the phase deadline of the engine is non-null
\* exactly when its status is running.
C7_DeadlineIffRunning ==
    call = NoCall => (phase_deadline # None <=> status = "running")

\* C8: turn_index never decreases in the engine and in the persisted
\* record, and every session.status event carries the turn_index of the
\* engine.
C8_TurnIndexMonotone ==
    [][/\ turn_index' >= turn_index
       /\ db'.turn_index >= db.turn_index
       /\ \A i \in 1..Len(out') :
             out'[i].event = "session.status" =>
                out'[i].turn_index = turn_index']_vars

\* C9: the phase is one of the four names and never changes to an earlier
\* one, in the engine and in the persisted record; an accepted start takes
\* the phase of the persisted record.
C9_PhaseForward ==
    [][/\ PhaseIdx(phase') >= 1
       /\ PhaseIdx(db'.phase) >= 1
       /\ PhaseIdx(phase') >= PhaseIdx(phase)
       /\ PhaseIdx(db'.phase) >= PhaseIdx(db.phase)
       /\ (call.op = "none" /\ call'.op = "start") => phase' = db.phase]_vars

\* C10: a stop that is not skipped sets the status to done, raises the
\* stop flag and opens the gate, so that no task waits at the gate; when
\* it completes, the persisted status is done with ended_at set; and from
\* then on the scheduler task of the engine eventually ends.
C10_StopEnds ==
    /\ [][(call.op = "none" /\ call'.op = "stop") =>
             /\ status \in {"running", "paused"} \/ cur_task # 0
             /\ status' = "done"
             /\ stop_requested'
             /\ pause_event'
             /\ \A t \in 1..Len(tasks') : tasks'[t].pc \notin GatePcs]_vars
    /\ [][(call.op = "stop" /\ call'.op = "none") =>
             /\ status' = "done"
             /\ db'.status = "done"
             /\ db'.ended_at]_vars
    /\ (call.op = "stop") ~> (cur_task = 0 \/ SchedulerExited)

\* C10 witness: a stop on a session persisted as paused is in flight and
\* the scheduler, not cancelled, has come to its cleanup
C10_Released ==
    /\ call.op = "stop"
    /\ db.status = "paused"
    /\ cur_task # 0
    /\ tasks[cur_task].pc = "fin_update"
    /\ ~tasks[cur_task].cancelled
    /\ ~tasks[cur_task].crashed

\* C11: when a scheduler task that a stop sent a cancellation to comes to
\* its end, it ends as cancelled, and the cleanup has persisted the status
\* done with the phase and the turn_index of the engine.
C11_CancelRunsCleanup ==
    [][\A t \in 1..Len(tasks) :
          (/\ Len(tasks') = Len(tasks)
           /\ tasks[t].pc \notin EndedPcs
           /\ tasks'[t].pc \in EndedPcs
           /\ tasks'[t].cancelled)
          => /\ tasks'[t].pc = "cancelled"
             /\ db'.status = "done"
             /\ db'.ended_at
             /\ db'.phase = phase'
             /\ db'.turn_index = turn_index']_vars

\* C12: while the status is paused, before and after a step, the step does
\* not increment turn_index and brings no task to the stream of a model
\* (a task that is in its stream may go on).
C12_PausedNoTurn ==
    [][(status = "paused" /\ status' = "paused") =>
          /\ turn_index' = turn_index
          /\ \A t \in 1..Len(tasks) :
                (Len(tasks') = Len(tasks) /\ tasks[t].pc # "turn_stream")
                => tasks'[t].pc # "turn_stream"]_vars

\* C13: a step taken after a stop has returned and before the next start
\* does not increase turn_index, inserts no message and no memory entry,
\* and broadcasts no token.delta and no message.created.
C13_NoEffectAfterStop ==
    [][(stop_requested /\ call.op = "none" /\ stop_requested') =>
          /\ turn_index' <= turn_index
          /\ ins' = <<>>
          /\ \A i \in 1..Len(out') :
                out'[i].event \notin {"token.delta", "message.created"}]_vars

\* C14: an advance request that is pending stays with the phase loop it
\* was made in (that loop consumes it, so that no later phase is cut
\* short); and on a paused session, once the gate is open and no request
\* is pending, the phase does not change: the phases after the one the
\* request ended do not pass without their turns.
C14_OneAdvanceOnePhase ==
    [][/\ (advance_requested /\ advance_requested') => phase' = phase
       /\ (/\ status = "paused"
           /\ status' = "paused"
           /\ pause_event
           /\ ~advance_requested) => phase' = phase]_vars

\* C15: what _collect_memories returns is the concatenation, in fetch
\* order, of the agents' buffers, sorted ascending by turn_index with the
\* entries of equal turn_index in their order of the concatenation, cut to
\* its last 8 entries; when all turn_index values differ it is the
\* ascending list of the (at most 8) entries of highest turn_index of the
\* stored entries, whatever the fetch order (a at 1,3 and b at 2,4 give
\* 1,2,3,4).
C15_MergedContext ==
    mem_pc = "return" =>
        LET merged == Merged(mem_roster, mem_store)
            N == Len(merged)
            K == Min(N, 8)
            Before(q, p) ==
                \/ merged[q].turn_index < merged[p].turn_index
                \/ /\ merged[q].turn_index = merged[p].turn_index
                   /\ q < p
            Rank(p) == Cardinality({q \in 1..N : Before(q, p)}) + 1
            All == UNION {{mem_store[name][i] :
                              i \in 1..Len(mem_store[name])} :
                          name \in AgentNames}
            Kept == {memories[i] : i \in 1..Len(memories)}
            Distinct == \A e, f \in All :
                            e # f => e.turn_index # f.turn_index
        IN  /\ Len(memories) = K
            /\ \A p \in 1..N :
                  Rank(p) > N - K => memories[Rank(p) - (N - K)] = merged[p]
            /\ Distinct =>
                  /\ \A i, j \in 1..K :
                        i < j =>
                           memories[i].turn_index < memories[j].turn_index
                  /\ Kept \subseteq All
                  /\ \A e \in All \ Kept :
                        e.turn_index < memories[1].turn_index
            /\ (/\ mem_store["a"] = <<Entry("a", 3), Entry("a", 1)>>
                /\ mem_store["b"] = <<Entry("b", 4), Entry("b", 2)>>)
               => memories = <<Entry("a", 1), Entry("b", 2), Entry("a", 3),
                               Entry("b", 4)>>

\* C15 witness: more than 8 entries were merged, with b fetched first, and
\* the result holds an entry of b followed by one of a of the same
\* turn_index
C15_CutWithTies ==
    /\ mem_pc = "return"
    /\ mem_roster = <<"b", "a">>
    /\ Len(mem_store["a"]) + Len(mem_store["b"]) > 8
    /\ Len(memories) = 8
    /\ \E i \in 1..7 :
          /\ memories[i].turn_index = memories[i + 1].turn_index
          /\ memories[i].agent = "b"
          /\ memories[i + 1].agent = "a"

\* C16: get_phases returns the four phases discover, define, develop,
\* deliver in that order, the i-th (from 0) with the duration
\* floor(T/4) + (1 if i < T mod 4 else 0) for T = max(total, 120); the
\* durations sum to T; 122 gives 31,31,30,30 and 50 gives 30,30,30,30.
C16_PhaseDurations ==
    phases # <<>> =>
        LET T == IF total_time > 120 THEN total_time ELSE 120
            Durations == [i \in 1..Len(phases) |-> phases[i].duration_sec]
        IN  /\ [i \in 1..Len(phases) |-> phases[i].name]
                  = <<"discover", "define", "develop", "deliver">>
            /\ \A i \in 1..4 :
                  Durations[i] =
                     (T \div 4) + (IF i - 1 < T % 4 THEN 1 ELSE 0)
            /\ Durations[1] + Durations[2] + Durations[3] + Durations[4] = T
            /\ total_time = 122 => Durations = <<31, 31, 30, 30>>
            /\ total_time = 50 => Durations = <<30, 30, 30, 30>>

\* C16 witness: the split of 122 seconds, the remainder of 2 given to the
\* first two phases
C16_Remainder ==
    /\ total_time = 122
    /\ phases # <<>>
    /\ phases[1].duration_sec = 31
    /\ phases[2].duration_sec = 31
    /\ phases[3].duration_sec = 30
    /\ phases[4].duration_sec = 30

\* C17: no queue ever holds more than its maximum of items; an emit to a
\* subscriber whose queue is full removes the oldest item and appends the
\* new one, so that the length stays at the maximum.
C17_QueueBounded ==
    [][/\ \A q \in QueueIds : Len(queues'[q]) <= MaxQueueSize
       /\ bc_call'.op = "emit" =>
             \A q \in listeners[bc_call'.sid] :
                Len(queues[q]) = MaxQueueSize =>
                   /\ Len(queues'[q]) = MaxQueueSize
                   /\ queues'[q] =
                         Tail(queues[q]) \o
                            <<[session_id |-> bc_call'.sid,
                               event |-> "event", seq |-> emitted']>>]_vars

\* C17 witness: every event so far was emitted for s1 (the subscriber of
\* s2, registered from the start, has none), one more than a queue holds;
\* a subscriber of s1 that dequeued nothing has lost the first of them
C17_DroppedOldest ==
    /\ bc_call.op = "emit"
    /\ bc_call.sid = "s1"
    /\ emitted = MaxQueueSize + 1
    /\ \E q \in listeners["s1"], p \in listeners["s2"] :
          /\ since[q] = 0
          /\ got[q] = 0
          /\ Len(queues[q]) = MaxQueueSize
          /\ queues[q][1].seq = 2
          /\ since[p] = 0
          /\ got[p] = 0
          /\ queues[p] = <<>>

\* C18: an emit does not raise and waits for nothing (it can be made in
\* every state); it places the event at the end of the queue of every
\* subscriber registered for its session, whatever the fill level of any
\* queue, and leaves the queues of all others as they were.
C18_EmitReachesAll ==
    [][/\ \A sid \in Sessions : emitted < MaxEmits => ENABLED Emit(sid)
       /\ bc_call'.op = "emit" =>
             /\ ~bc_call'.raised
             /\ emitted' = emitted + 1
             /\ listeners' = listeners
             /\ \A q \in listeners[bc_call'.sid] :
                   /\ queues'[q] # <<>>
                   /\ queues'[q][Len(queues'[q])] =
                         [session_id |-> bc_call'.sid, event |-> "event",
                          seq |-> emitted']
             /\ \A q \in QueueIds \ listeners[bc_call'.sid] :
                   queues'[q] = queues[q]]_vars

\* C18 witness: an emit for s1 reached a subscriber whose queue was full
\* and a second one that registered just before it, with a subscriber of
\* s2 registered
C18_FullAndOther ==
    /\ bc_call.op = "emit"
    /\ bc_call.sid = "s1"
    /\ listeners["s2"] # {}
    /\ \E q1, q2 \in listeners["s1"] :
          /\ got[q1] = 0
          /\ Len(queues[q1]) = MaxQueueSize
          /\ since[q1] + MaxQueueSize < emitted
          /\ since[q2] = emitted - 1
          /\ Len(queues[q2]) = 1
          /\ queues[q2][1].seq = emitted

\* C19: close_session does not raise, removes every subscriber of the
\* session from the registry and places session.closed at the end of the
\* queue of each of them; session.closed is the last item of a queue.
C19_CloseNotifiesAll ==
    [][/\ bc_call'.op = "close_session" =>
             /\ ~bc_call'.raised
             /\ listeners'[bc_call'.sid] = {}
             /\ \A q \in listeners[bc_call'.sid] :
                   /\ queues'[q] # <<>>
                   /\ queues'[q][Len(queues'[q])].event = "session.closed"
       /\ \A q \in QueueIds :
             \A i \in 1..Len(queues'[q]) :
                queues'[q][i].event = "session.closed"
                   => i = Len(queues'[q])]_vars

\* C20: the items of a subscriber's queue are events placed for its
\* session after it registered, in the order they were placed, each once
\* and none that it has dequeued already; an item enters the queue only in
\* the step that places it, for a subscriber registered at that step; what
\* the subscriber dequeues is the head of its queue, later than what it
\* dequeued before; before it registered and after it unregistered nothing
\* reaches it.
C20_OrderedAtMostOnce ==
    [][\A q \in QueueIds :
          /\ \A i \in 1..Len(queues'[q]) :
                /\ queues'[q][i].session_id = conn'[q].sid
                /\ queues'[q][i].seq > since'[q]
                /\ queues'[q][i].seq > got'[q]
                /\ queues'[q][i].seq <= emitted'
                /\ \A j \in 1..Len(queues'[q]) :
                      i < j => queues'[q][i].seq < queues'[q][j].seq
                /\ (\A k \in 1..Len(queues[q]) :
                       queues[q][k] # queues'[q][i])
                   => /\ queues'[q][i].seq = emitted'
                      /\ emitted' = emitted + 1
                      /\ bc_call'.sid = queues'[q][i].session_id
                      /\ q \in listeners[bc_call'.sid]
          /\ (got'[q] # got[q] /\ conn'[q].st = "open") =>
                /\ queues[q] # <<>>
                /\ got'[q] = Head(queues[q]).seq
                /\ Head(queues[q]).session_id = conn[q].sid
                /\ got'[q] > got[q]
                /\ got'[q] > since[q]
          /\ conn'[q].st # "open" =>
                /\ queues'[q] = <<>>
                /\ got'[q] = 0
                /\ \A sid \in Sessions : q \notin listeners'[sid]]_vars

\* C20 witness: a subscriber that registered after the first event has
\* dequeued the third and has the fourth in its queue
C20_LateSubscriber ==
    \E q \in QueueIds :
       /\ conn[q].st = "open"
       /\ since[q] = 1
       /\ got[q] = 3
       /\ Len(queues[q]) = 1
       /\ queues[q][1].seq = 4

\* C21: the sentiment score of a text is (pos - neg) / max(pos + neg, 1)
\* for pos and neg the numbers of positive and negative lexicon words that
\* occur in the lower-cased text; it lies in [-1, 1] and is 0 when
\* pos = neg, both zero included ("great, excellent" gives 1, "good but
\* risky" gives 0, "the sky is blue" gives 0).
C21_SentimentScore ==
    sentiment # {} =>
        LET InText(w) ==
                \E i \in 1..(Len(sc_text) - Len(w) + 1) :
                   \A k \in 1..Len(w) :
                      LowerChar(Char(sc_text, i + k - 1)) = Char(w, k)
            pos == Cardinality({w \in POSITIVE_WORDS : InText(w)})
            neg == Cardinality({w \in NEGATIVE_WORDS : InText(w)})
            D == IF pos + neg > 1 THEN pos + neg ELSE 1
            score == CHOOSE x \in sentiment : TRUE
        IN  /\ score.den > 0
            /\ score.num * D = (pos - neg) * score.den
            /\ 0 - score.den <= score.num
            /\ score.num <= score.den
            /\ pos = neg => score.num = 0
            /\ sc_text = "great, excellent" => score.num = score.den
            /\ sc_text = "good but risky" => score.num = 0
            /\ sc_text = "the sky is blue" => score.num = 0

\* C21 witness: two positive words and a negative one, which is capitalised
\* in the text, give a third
C21_TwoToOne ==
    /\ sc_text = "great, excellent" \o
                 "Bad: might could possibly probably guess unsure"
    /\ sentiment = {[num |-> 1, den |-> 3]}

\* C22: the prompt composed for a turn, in normal, notepad and summary
\* mode, has a line that starts with "Problem statement:" and carries the
\* problem statement of the session.
C22_ProblemStatementLine ==
    prompt # "" =>
        \E i \in 1..Len(prompt) :
           /\ i = 1 \/ SubSeq(prompt, i - 1, i - 1) = "\n"
           /\ SubSeq(prompt, i, i + 17) = "Problem statement:"
           /\ \E j \in (i + 18)..Len(prompt) :
                 /\ SubSeq(prompt, j, j + Len(pr_args.problem_statement) - 1)
                       = pr_args.problem_statement
                 /\ \A k \in i..j : SubSeq(prompt, k, k) # "\n"

\* the pcs of a turn that is under way (its reads are made, its message is
\* not yet announced)
TurnPcs == {"turn_read", "turn_persist", "turn_stream", "turn_save",
            "turn_memory"}

\* C23: the turns a phase loop carries out before its summary are a prefix
\* of at most MaxTurnsPerPhase (8 in the program) repetitions of the cycle
\* moderator, every participant in stored order, and on each second cycle
\* the note-taker if there is one: the n-th turn carried out is the n-th
\* of that schedule and is a turn of the agent the schedule names; and
\* while a turn is under way no other task is in a turn.
C23_CyclePrefix ==
    [][\A t \in 1..Len(tasks) :
          (/\ Len(tasks') = Len(tasks)
           /\ tasks[t].pc = "turn_read"
           /\ tasks'[t].pc = "turn_persist"
           /\ tasks[t].slot # "summary")
          => LET r == tasks[t]
                 P == Cardinality({i \in 1..Len(agents) :
                                     agents[i] = "participant"})
                 HasNoteTaker == \E i \in 1..Len(agents) :
                                    agents[i] = "notetaker"
                 Before == r.cycles * (1 + P)
                              + (IF HasNoteTaker THEN r.cycles \div 2 ELSE 0)
                 Within == CASE r.slot = "mod" -> 1
                             [] r.slot = "part" -> 1 + r.k
                             [] r.slot = "note" -> P + 2
                             [] OTHER -> 0
                 a == AgentOf(Eng, r)
             IN  /\ turn_index' = turn_index + 1
                 /\ r.cycles + 1 <= MaxTurnsPerPhase
                 /\ tasks'[t].turns = Before + Within
                 /\ a \in 1..Len(agents)
                 /\ r.slot = "mod" =>
                       /\ agents[a] = "moderator"
                       /\ \A i \in 1..(a - 1) : agents[i] # "moderator"
                 /\ r.slot = "part" =>
                       /\ agents[a] = "participant"
                       /\ Cardinality({i \in 1..a :
                                          agents[i] = "participant"}) = r.k
                 /\ r.slot = "note" =>
                       /\ agents[a] = "notetaker"
                       /\ (r.cycles + 1) % 2 = 0
                 /\ \A u \in 1..Len(tasks) :
                       u # t => /\ tasks[u].pc \notin TurnPcs
                                /\ tasks'[u].pc \notin TurnPcs]_vars

\* C23 witness: the note-taker's turn of the second cycle is under way as
\* the seventh turn of the phase loop, after the moderator and the two
\* participants twice
C23_SeventhTurn ==
    \E t \in 1..Len(tasks) :
       /\ tasks[t].pc = "turn_stream"
       /\ tasks[t].slot = "note"
       /\ tasks[t].cycles = 1
       /\ tasks[t].turns = 7
       /\ Len(Participants(agents)) = 2

\* the awaits of a phase loop, the summary turn included
PhaseLoopPcs == {"pl_update", "while_wait", "turn_wait", "turn_read",
                 "turn_persist", "turn_stream", "turn_save", "turn_memory"}

\* C24: a task leaves a phase loop for the next phase or for the end of
\* the run, with no stop requested and no exception or cancellation, only
\* out of the summary turn of the moderator, which was carried out (it is
\* past its increment of turn_index: in its stream or at its last await);
\* that turn is entered from the loop only, once; and no summary turn is
\* begun once a stop is requested.
C24_SummaryAfterLoop ==
    [][\A t \in 1..Len(tasks) :
          Len(tasks') = Len(tasks) =>
             /\ (/\ tasks[t].pc \in PhaseLoopPcs
                 /\ tasks'[t].idx # tasks[t].idx
                 /\ ~stop_requested'
                 /\ ~tasks'[t].crashed
                 /\ ~tasks'[t].cancelled)
                => /\ tasks[t].slot = "summary"
                   /\ tasks[t].pc \in {"turn_stream", "turn_memory"}
                   /\ agents[AgentOf(Eng, tasks[t])] = "moderator"
             /\ (/\ tasks'[t].slot = "summary"
                 /\ tasks'[t].pc = "turn_read"
                 /\ tasks[t].pc # "turn_read")
                => /\ ~stop_requested'
                   /\ tasks[t].slot = "summary" => tasks[t].pc = "turn_wait"
             /\ (tasks[t].pc = "turn_read" /\ tasks'[t].pc = "turn_persist"
                 /\ tasks[t].slot = "summary")
                => turn_index' = turn_index + 1]_vars

\* the awaits of a turn after its increment of turn_index
StartedPcs == {"turn_persist", "turn_stream", "turn_save", "turn_memory"}

\* where in the schedule of its run a task record stands
Position(r) == <<r.idx, r.cycles, r.slot, r.k>>

\* C25: a turn increments turn_index by one, once, and the session row
\* carries that value when the stream is opened; a stream that raises
\* emits one error event of scope agent, inserts no message and no memory
\* entry, leaves turn_index and its persisted value alone, and the
\* scheduler goes on from the place after that turn, not into it again.
C25_TurnIndexAndStreamFailure ==
    [][\A t \in 1..Len(tasks) :
          Len(tasks') = Len(tasks) =>
             /\ (tasks[t].pc = "turn_read" /\ tasks'[t].pc \in StartedPcs)
                => /\ turn_index' = turn_index + 1
                   /\ tasks'[t].pc = "turn_persist"
             /\ (tasks[t].pc \in StartedPcs)
                => turn_index' = turn_index
             /\ (tasks[t].pc # "turn_stream" /\ tasks'[t].pc = "turn_stream")
                => /\ tasks[t].pc = "turn_persist"
                   /\ db'.turn_index = turn_index'
             /\ (/\ tasks[t].pc = "turn_stream"
                 /\ tasks'[t].pc \notin {"turn_stream", "turn_save"}
                 /\ ~tasks'[t].cancelled
                 /\ tasks'[t].pc \notin EndedPcs)
                => /\ Len(out') = 1
                   /\ out'[1].event = "error"
                   /\ out'[1].scope = "agent"
                   /\ ins' = <<>>
                   /\ db'.turn_index = db.turn_index
                   /\ tasks'[t].pc \notin StartedPcs
                   /\ tasks'[t].pc \in TurnPcs
                      => Position(tasks'[t]) # Position(tasks[t])]_vars

\* C25 witness: the moderator's stream of the first turn has raised, and
\* the scheduler awaits the reads of the first participant's turn
C25_FailedStream ==
    \E t \in 1..Len(tasks) :
       /\ Len(out) = 1
       /\ out[1].event = "error"
       /\ out[1].scope = "agent"
       /\ tasks[t].pc = "turn_read"
       /\ tasks[t].slot = "part"
       /\ tasks[t].turns = 1
       /\ turn_index = 1
       /\ db.turn_index = 1

\* an event of type e is among the events o of a step
HasEvent(o, e) == \E i \in 1..Len(o) : o[i].event = e

\* a row of table tb is among the rows i a step inserts
HasRow(i, tb) == \E j \in 1..Len(i) : i[j].table = tb

\* C26: when the stream of a turn has ended, white space alone has become
\* "[no response]"; the turn's next step inserts one message, with the
\* turn's turn_index, the phase and that text, and emits nothing; the step
\* after it emits message.created and inserts no message; turn_index, the
\* phase and the text stay as they are in between; and token.delta is
\* emitted only while the stream is open, so before the message is saved.
C26_MessageBeforeCreated ==
    [][/\ \A t \in 1..Len(tasks) :
             Len(tasks') = Len(tasks) =>
                /\ (tasks[t].pc # "turn_save" /\ tasks'[t].pc = "turn_save")
                   => /\ tasks[t].pc = "turn_stream"
                      /\ tasks'[t].text = IF tasks[t].text = "w" THEN "w"
                                          ELSE "[no response]"
                      /\ out' = <<>>
                      /\ ins' = <<>>
                /\ (tasks[t].pc # "turn_memory"
                    /\ tasks'[t].pc = "turn_memory")
                   => /\ tasks[t].pc = "turn_save"
                      /\ ins' = <<[table |-> "messages",
                                   turn_index |-> turn_index,
                                   phase |-> phase,
                                   text |-> tasks[t].text]>>
                      /\ out' = <<>>
                /\ (tasks[t].pc \in {"turn_save", "turn_memory"}
                    /\ tasks'[t].pc \in {"turn_save", "turn_memory"})
                   => /\ turn_index' = turn_index
                      /\ phase' = phase
                      /\ tasks'[t].text = tasks[t].text
                      /\ ~HasEvent(out', "message.created")
                      /\ ~HasEvent(out', "token.delta")
       /\ HasEvent(out', "message.created")
          => /\ Len(out') = 1
             /\ ~HasRow(ins', "messages")
             /\ Len(tasks') = Len(tasks)
             /\ \E t \in 1..Len(tasks) :
                   /\ tasks[t].pc = "turn_memory"
                   /\ tasks'[t].pc # "turn_memory"
                   /\ \A u \in 1..Len(tasks) :
                         tasks[u].pc = "turn_memory" => u = t
       /\ HasEvent(out', "token.delta")
          => /\ Len(tasks') = Len(tasks)
             /\ \E t \in 1..Len(tasks) :
                   /\ tasks[t].pc = "turn_stream"
                   /\ tasks'[t].pc = "turn_stream"]_vars

\* C26 witness: message.created has just been emitted for the second
\* turn, whose stream gave white space only
C26_NoResponseCreated ==
    /\ Len(out) = 1
    /\ out[1].event = "message.created"
    /\ out[1].turn_index = 2
    /\ Len(ins) = 1
    /\ ins[1].table = "memory"
    /\ ins[1].text = "[no response]"
    /\ ins[1].turn_index = 2
    /\ db.turn_index = 2

\* how many of the hedge words occur in text t, letter case apart
C27_Hedges(t) ==
    Cardinality({w \in HEDGE_WORDS : Contains(lower(t), w)})

\* max(0, 1 - 0.15 * hedges)
C27_Auto(t) ==
    IF 15 * C27_Hedges(t) >= 100 THEN Ratio(0, 1)
    ELSE Ratio(100 - 15 * C27_Hedges(t), 100)

\* C27 (the value): the confidence of a text is 0.6 * explicit + 0.4 *
\* max(0, 1 - 0.15 * hedges) when the text states a confidence, and
\* max(0, 1 - 0.15 * hedges) when it does not; "Confidence: 0.9" gives
\* 0.94 and "maybe, perhaps" gives 0.7.
C27_ConfidenceValue ==
    confidence # None =>
       LET c == Only(confidence)
           m == search(sc_text)
       IN  /\ c = IF m = None THEN C27_Auto(sc_text)
                  ELSE RAdd(RMul(Ratio(6, 10), float(Only(m))),
                            RMul(Ratio(4, 10), C27_Auto(sc_text)))
           /\ sc_text = "Confidence: 0.9" => c = [num |-> 47, den |-> 50]
           /\ sc_text = "maybe, perhaps" => c = [num |-> 7, den |-> 10]

\* C27: the confidence of a text has the value above and lies in [0, 1].
C27_ConfidenceScore ==
    /\ C27_ConfidenceValue
    /\ confidence # None =>
          /\ 0 <= Only(confidence).num
          /\ Only(confidence).num <= Only(confidence).den

\* task t begins a phase in this step: it has come to the await of the
\* update_session of _run_phase_loop
C28_BeginsPhase(t) ==
    /\ tasks'[t].pc = "pl_update"
    /\ t <= Len(tasks) => \/ tasks[t].pc # "pl_update"
                          \/ tasks[t].idx # tasks'[t].idx

\* the slots of the turns of a cycle
CycleSlots == {"mod", "part", "note"}

\* C28: the deadline of a phase is set in the step in which that phase
\* begins, to the duration of the phase from then, and is not changed
\* again but by being cleared; the clock, once past it, stays past it
\* until a phase begins (a pause moves neither); a task comes into a
\* cycle only in a step after which the clock is not past the deadline;
\* and the clock passing the deadline moves no task, and a turn past its
\* increment goes on to its next await as it would before the deadline.
C28_PhaseDeadline ==
    [][/\ (phase_deadline' # phase_deadline /\ phase_deadline' # None)
          => /\ \E t \in 1..Len(tasks') :
                   /\ C28_BeginsPhase(t)
                   /\ Phases[tasks'[t].idx].name = phase'
                   /\ phase_deadline' =
                         Some([phase |-> phase',
                               sec |-> Phases[tasks'[t].idx].duration_sec])
             /\ ~expired'
       /\ (expired /\ ~expired')
          => \E t \in 1..Len(tasks') : C28_BeginsPhase(t)
       /\ (~expired /\ expired')
          => /\ tasks' = tasks
             /\ phase_deadline' = phase_deadline
             /\ phase_deadline # None
       /\ \A t \in 1..Len(tasks) :
             Len(tasks') = Len(tasks) =>
                /\ (/\ tasks'[t].slot \in CycleSlots
                    /\ \/ tasks[t].slot \notin CycleSlots
                       \/ tasks[t].cycles # tasks'[t].cycles
                       \/ tasks[t].idx # tasks'[t].idx)
                   => ~expired'
                /\ (/\ expired
                    /\ tasks'[t].pc # tasks[t].pc
                    /\ ~tasks'[t].cancelled
                    /\ ~tasks'[t].crashed)
                   => /\ tasks[t].pc = "turn_read"
                         => tasks'[t].pc = "turn_persist"
                      /\ tasks[t].pc = "turn_persist"
                         => tasks'[t].pc = "turn_stream"
                      /\ tasks[t].pc = "turn_save"
                         => tasks'[t].pc = "turn_memory"
                      /\ (tasks[t].pc = "turn_stream" /\ out' = <<>>)
                         => tasks'[t].pc = "turn_save"]_vars

\* C28 witness: the clock is past the deadline while the stream of a
\* participant's turn is open
C28_TurnPastDeadline ==
    \E t \in 1..Len(tasks) :
       /\ expired
       /\ phase_deadline = Some([phase |-> "discover",
                                 sec |-> Phases[1].duration_sec])
       /\ tasks[t].pc = "turn_stream"
       /\ tasks[t].slot = "part"
       /\ tasks[t].idx = 1
       /\ status = "running"

\* C29: when the update_session of the finally block of _run has been
\* carried out and the task has gone on to its last status event (after
\* the phases are exhausted, after a stop, or after an exception), the
\* deadline of the persisted session is null.
C29_CleanupClearsDeadline ==
    [][\A t \in 1..Len(tasks) :
          (/\ Len(tasks') = Len(tasks)
           /\ tasks[t].pc = "fin_update"
           /\ tasks'[t].pc \in EndedPcs
           /\ HasEvent(out', "session.status"))
          => db'.deadline = None]_vars

\* C30: the session.status event the scheduler emits in its last step,
\* after the cleanup, carries the status done, whether the task ends
\* because the phases are exhausted, because of a stop, or because an
\* exception escaped the phase loop.
C30_LastStatusDone ==
    [][\A t \in 1..Len(tasks) :
          (/\ Len(tasks') = Len(tasks)
           /\ tasks[t].pc = "fin_update"
           /\ tasks'[t].pc \in EndedPcs
           /\ out' # <<>>)
          => /\ Len(out') = 1
             /\ out'[1].event = "session.status"
             /\ out'[1].status = "done"]_vars

\* C33: the pause gate is closed exactly when the status is paused.
C33_GateClosedIffPaused == ~pause_event <=> status = "paused"

\* the awaits of update_session in the scheduler task: a change of the
\* engine's fields is on its way to the session row
MirrorPcs == {"pl_update", "turn_persist", "fin_update"}

\* C31: when no control call is in progress and no scheduler task is
\* between a change of the engine's fields and its update_session, the
\* status, phase and turn_index of the engine are those of the session row.
C31_MirrorsPersisted ==
    (/\ call = NoCall
     /\ \A t \in 1..Len(tasks) : tasks[t].pc \notin MirrorPcs)
    => /\ status = db.status
       /\ phase = db.phase
       /\ turn_index = db.turn_index

\* C34: a message is inserted with a turn_index larger than that of every
\* message inserted before it.  A task that awaits _append_memory has
\* inserted the message of its turn, with the turn_index of the engine, so
\* a message inserted while a task stands there has a larger turn_index.
C34_MessagesInOrder ==
    [][\A i \in 1..Len(ins') :
          ins'[i].table = "messages" =>
             \A t \in 1..Len(tasks) :
                tasks[t].pc = "turn_memory"
                   => ins'[i].turn_index > turn_index]_vars

\* C35: what _collect_memories returned holds no entry twice, and no list
\* of short-term memory holds more than SHORT_TERM_LIMIT entries, whether
\* the two agents of the roster have different names or the same name.
C35_OnceAndBounded ==
    /\ \A i, j \in 1..Len(memories) :
          i # j => memories[i] # memories[j]
    /\ \A name \in AgentNames : Len(mem_store[name]) <= SHORT_TERM_LIMIT

\* C32: once a scheduler task has been started, the task of the engine
\* eventually has ended and the status of the engine is done.
C32_EventuallyDone ==
    (cur_task # 0) ~> (SchedulerExited /\ status = "done")

====
